---- MODULE Spec2Model ----
(***************************************************************************)
(* The store engine of src/src/createStore.ts as a state machine.          *)
(*                                                                         *)
(* JavaScript is single-threaded and every store operation is synchronous, *)
(* so the only interleaving is reentrancy: a reducer or a listener calling *)
(* back into the store while a dispatch is on the call stack.  The model   *)
(* keeps that call stack explicitly.  A dispatch call is one frame, first  *)
(* in its reducer phase (k = "reducer", the body of the reducer running),  *)
(* then in its notification phase (k = "notify", the for loop); a listener *)
(* being run by the loop is a frame on top of it (k = "listener").  Code   *)
(* running in a reducer body, a listener body or the top-level caller may  *)
(* call any store operation.                                               *)
(*                                                                         *)
(* The listener arrays live in a small heap (arrays), because the code     *)
(* compares and shares them by reference (nextListeners ===                *)
(* currentListeners, const listeners = currentListeners = nextListeners).  *)
(***************************************************************************)
EXTENDS Integers, Sequences, FiniteSets, TLC

\* ------------------------------------------------------------------ bounds
MaxDepth == 4
MaxOps == 2
MaxSubs == 3
MaxCalls == 5
NStates == 3

\* ------------------------------------------------------- values of the model
Undef == -1
Null == 0
MaxArr == MaxDepth + 2
ArrIds == 1..MaxArr

Reducers == {"R1", "R2"}
Preloaded == {Undef, NStates - 1}
NotFn == "notfn"
Fns == {"L1", "L2"}

\* what observable().subscribe can be given: an object with a next hook, an
\* object without one, null, a value that is not an object
Observer(t, next) == [t |-> t, next |-> next]
ObserverVals ==
  {Observer("object", TRUE), Observer("object", FALSE),
   Observer("null", FALSE), Observer("number", FALSE)}
\* the observeState closure made for an observer with or without next
ObserveFn(o) == IF o.next THEN "O1" ELSE "O0"
ObserveFns == {"O1", "O0"}

\* the middlewares applyMiddleware can be given, in configured order
Middlewares == <<"M1", "M2">>
\* the store had no enhancer
NoEnh == [mws |-> <<>>, phase |-> "none", made |-> 0, wrapped |-> 0]

\* what fills an argument slot of createStore: nothing, a value that is not
\* callable, or the enhancer applyMiddleware(m1, ..., mn)
Und == [t |-> "undefined", v |-> Undef, n |-> 0]
Val(x) == [t |-> "value", v |-> x, n |-> 0]
Enhancer(n) == [t |-> "function", v |-> Undef, n |-> n]
Slot(x) == IF x = Undef THEN Und ELSE Val(x)

\* the two store objects: the one createStore builds and the copy with
\* dispatch replaced that applyMiddleware returns
StoreObj(which) == [kind |-> "store", type |-> which]

INIT == "@@redux/INIT"
REPLACE == "@@redux/REPLACE"

PlainAction(t) == [kind |-> "plain", type |-> t]
NoAct == [kind |-> "none", type |-> "undefined"]
\* what user code passes to dispatch
ActionVals ==
  {PlainAction(t) : t \in {"INC", "UNK", "undefined"}}
    \cup {[kind |-> kd, type |-> "undefined"] :
            kd \in {"number", "string", "null", "function", "array", "instance"}}

\* ------------------------------------------------------------------- state
VARIABLES
  created,           \* createStore has returned the store to its caller
  currentReducer,
  currentState,
  currentListeners,  \* an array id, or Null
  nextListeners,     \* an array id
  isDispatching,
  arrays,            \* heap: array id -> sequence of listener functions
  subs,              \* the closures made by subscribe: [fn, isSubscribed]
  stack,             \* call stack of dispatch and listener frames
  exc,               \* the exception in flight in the top frame, or "none"
  ret,               \* outcome of the call that completed last
  calls,             \* number of calls made on the store so far
  reg,               \* history: the subscriptions in force, oldest first
  seen,              \* history: the state each listener function found when
                     \* it was last entered or last returned
  enh                \* the enhancer createStore was given: its middlewares
                     \* and how far applyMiddleware has got

vars == <<created, currentReducer, currentState, currentListeners,
          nextListeners, isDispatching, arrays, subs, stack, exc, ret,
          calls, reg, seen, enh>>

\* ------------------------------------------------------ external functions
\* The reducers handed to the store: pure functions (state, action) -> state.
Base(d, s) == IF s = Undef THEN d ELSE s
Reduce(r, s, a) ==
  IF r = "R1"
  THEN IF a.type = "INC" THEN (Base(0, s) + 1) % NStates ELSE Base(0, s)
  ELSE IF a.type = "INC" THEN (Base(1, s) + 2) % NStates
       ELSE IF a.type = REPLACE THEN (Base(1, s) + 1) % NStates
       ELSE Base(1, s)

isPlainObject(v) == v.kind = "plain"

\* ---------------------------------------------------------------- frames
NoFrame ==
  [k |-> "none", via |-> "none", a |-> NoAct, r |-> "none", s |-> Undef,
   fn |-> "none", arg |-> "none", preS |-> Undef, preR |-> "none",
   snap |-> <<>>,
   ls |-> Null, snapL |-> <<>>, i |-> 0, inv |-> <<>>, nested |-> FALSE,
   ops |-> 0]

\* a dispatch call entered now, its reducer called with (s, a).  The other
\* fields are history: the argument of the call that dispatches, and the
\* state, the reducer and the subscriptions in force when that call was made
DispatchFrame(via, arg, a, r, s) ==
  [NoFrame EXCEPT !.k = "reducer", !.via = via, !.a = a, !.r = r, !.s = s,
                  !.arg = arg, !.preS = currentState,
                  !.preR = currentReducer, !.snap = reg]

ListenerFrame(fn) == [NoFrame EXCEPT !.k = "listener", !.fn = fn]
\* observeState() called by observable().subscribe itself, not by a loop
ObserveFrame(fn) == [ListenerFrame(fn) EXCEPT !.via = "observe"]

Top == stack[Len(stack)]
\* the frames of store code (dispatch calls and the listeners they run)
Depth(stk) == Cardinality({j \in 1..Len(stk) : stk[j].k # "mw"})
Pop(stk, n) == SubSeq(stk, 1, Len(stk) - n)

\* the code of a reducer body, of a listener body or of the caller is running
InBody ==
  /\ exc = "none"
  /\ calls < MaxCalls
  /\ calls' = calls + 1
  /\ \/ stack = <<>> /\ created
     \/ /\ stack # <<>>
        /\ Top.k \in {"listener", "reducer"}
        /\ Top.via # "init"
        /\ Top.fn # "O0"
        /\ Top.ops < MaxOps

Used(stk) ==
  IF stk = <<>> THEN stk ELSE [stk EXCEPT ![Len(stk)].ops = @ + 1]

\* ------------------------------------------------------------ call results
Ret(op, status, val) ==
  [op |-> op, status |-> status, val |-> val, depth |-> Len(stack),
   f |-> NoFrame,
   post |-> Undef, flag |-> FALSE]

RetOf(frame, op, status, val, depth, post, flag) ==
  [op |-> op, status |-> status, val |-> val, depth |-> depth,
   f |-> frame, post |-> post, flag |-> flag]

\* a call made from the running body throws before it changed anything
Fails(op, err) ==
  /\ ret' = Ret(op, err, Undef)
  /\ exc' = IF stack = <<>> THEN "none" ELSE err
  /\ stack' = Used(stack)

\* --------------------------------------------------------- the array heap
LiveIds(cur, nxt, stk) ==
  ({cur, nxt} \ {Null})
    \cup {stk[j].ls : j \in {q \in 1..Len(stk) : stk[q].k = "notify"}}

\* arrays no reference reaches are collected
Gc(arr, cur, nxt, stk) ==
  [id \in ArrIds |-> IF id \in LiveIds(cur, nxt, stk) THEN arr[id] ELSE <<>>]

FreshId ==
  CHOOSE id \in ArrIds \ LiveIds(currentListeners, nextListeners, stack) :
    \A j \in ArrIds \ LiveIds(currentListeners, nextListeners, stack) : id <= j

\* variant: nextListeners is mutated in place, never copied
ensureCanMutateNextListeners_NoCopy ==
  [nxt |-> nextListeners, arr |-> arrays]

\* nextListeners and the heap after ensureCanMutateNextListeners()
ensureCanMutateNextListeners ==
  IF nextListeners = currentListeners
  THEN [nxt |-> FreshId,
        arr |-> [arrays EXCEPT ![FreshId] = arrays[currentListeners]]]
  ELSE [nxt |-> nextListeners, arr |-> arrays]

\* Array.prototype.indexOf, 1-based; 0 when absent
IndexOf(seq, x) ==
  IF \E j \in 1..Len(seq) : seq[j] = x
  THEN CHOOSE j \in 1..Len(seq) : seq[j] = x /\ \A q \in 1..(j - 1) : seq[q] # x
  ELSE 0

\* Array.prototype.splice(index, 1); index -1 (here 0) removes the last element
Splice1(seq, idx) ==
  IF seq = <<>> THEN seq
  ELSE LET at == IF idx = 0 THEN Len(seq) ELSE idx
       IN  SubSeq(seq, 1, at - 1) \o SubSeq(seq, at + 1, Len(seq))

\* the listener functions of a sequence of subscriptions
FnsOf(ids) == [j \in 1..Len(ids) |-> subs[ids[j]].fn]

\* ------------------------------------------------------------------- Init
Init ==
  /\ created = FALSE
  /\ currentReducer = "none"
  /\ currentState = Undef
  /\ currentListeners = 1
  /\ nextListeners = 1
  /\ isDispatching = FALSE
  /\ arrays = [id \in ArrIds |-> <<>>]
  /\ subs = <<>>
  /\ stack = <<>>
  /\ exc = "none"
  /\ calls = 0
  /\ reg = <<>>
  /\ seen = [fn \in Fns \cup ObserveFns |-> Undef]
  /\ enh = NoEnh
  /\ ret = Ret("none", "ok", Undef)

\* --------------------------------------------------------------- dispatch
\* variant: dispatch without its isDispatching check
DispatchCheck_NoReentrancyCheck(v) ==
  IF ~isPlainObject(v) THEN "InvalidActionShape"
  ELSE IF v.type = "undefined" THEN "MissingActionType"
  ELSE "ok"

\* variant: dispatch without its check of action.type
DispatchCheck_NoTypeCheck(v) ==
  IF ~isPlainObject(v) THEN "InvalidActionShape"
  ELSE IF isDispatching THEN "ReentrantDispatch"
  ELSE "ok"

\* variant: a dispatch counts as in progress until its listeners have run
DispatchCheck_RejectsNested(v) ==
  IF ~isPlainObject(v) THEN "InvalidActionShape"
  ELSE IF v.type = "undefined" THEN "MissingActionType"
  ELSE IF isDispatching \/ stack # <<>> THEN "ReentrantDispatch"
  ELSE "ok"

\* variant: dispatch looks at isDispatching before it looks at the action
DispatchCheck_ReentrancyFirst(v) ==
  IF isDispatching THEN "ReentrantDispatch"
  ELSE IF ~isPlainObject(v) THEN "InvalidActionShape"
  ELSE IF v.type = "undefined" THEN "MissingActionType"
  ELSE "ok"

\* the three checks at the head of dispatch(action), in order
DispatchCheck(v) ==
  IF ~isPlainObject(v) THEN "InvalidActionShape"
  ELSE IF v.type = "undefined" THEN "MissingActionType"
  ELSE IF isDispatching THEN "ReentrantDispatch"
  ELSE "ok"

\* variant: the reducer is called without the current state
ReducerArgs_NoState(cr, v) == [r |-> cr, s |-> Undef, a |-> v]

\* the arguments of the reducer call: currentReducer(currentState, action)
ReducerArgs(cr, v) == [r |-> cr, s |-> currentState, a |-> v]

\* dispatch(v) up to the point where the reducer body starts to run; cr is
\* the binding of currentReducer when dispatch is entered
StartDispatch(op, via, arg, v, cr) ==
  IF DispatchCheck(v) # "ok"
  THEN /\ Fails(op, DispatchCheck(v))
       /\ isDispatching' = isDispatching
  ELSE /\ Depth(stack) + 2 <= MaxDepth
       /\ isDispatching' = TRUE
       /\ stack' = Append(Used(stack),
                          DispatchFrame(via, arg, ReducerArgs(cr, v).a,
                                        ReducerArgs(cr, v).r,
                                        ReducerArgs(cr, v).s))
       /\ ret' = Ret(op, "running", Undef)
       /\ exc' = exc

Dispatch(v) ==
  /\ InBody
  /\ StartDispatch("dispatch", "user", "none", v, currentReducer)
  /\ UNCHANGED <<created, currentReducer, currentState, currentListeners,
                 nextListeners, arrays, subs, reg, seen, enh>>

\* variant: isDispatching stays set when the reducer has returned
ReducerReturn_KeepsFlag ==
  /\ exc = "none"
  /\ stack # <<>>
  /\ Top.k = "reducer"
  /\ currentState' = Reduce(Top.r, Top.s, Top.a)
  /\ isDispatching' = isDispatching
  /\ currentListeners' = nextListeners
  /\ stack' = [j \in 1..Len(stack) |->
                 IF j = Len(stack)
                 THEN [stack[j] EXCEPT !.k = "notify", !.ls = nextListeners,
                                       !.snapL = arrays[nextListeners],
                                       !.i = 0, !.ops = 0]
                 ELSE IF stack[j].k = "notify"
                      THEN [stack[j] EXCEPT !.nested = TRUE]
                      ELSE stack[j]]
  /\ arrays' = Gc(arrays, nextListeners, nextListeners, stack')
  /\ UNCHANGED <<calls, created, currentReducer, nextListeners, subs, exc, ret, reg, seen,
                 enh>>

\* variant: a nested dispatch iterates the array of the loop that encloses it
ReducerReturn_OuterSnapshot ==
  LET outer == {j \in 1..Len(stack) : stack[j].k = "notify"}
      ls == IF outer = {} THEN nextListeners
            ELSE stack[CHOOSE j \in outer : \A q \in outer : q <= j].ls
  IN  /\ exc = "none"
      /\ stack # <<>>
      /\ Top.k = "reducer"
      /\ currentState' = Reduce(Top.r, Top.s, Top.a)
      /\ isDispatching' = FALSE
      /\ currentListeners' = ls
      /\ stack' = [j \in 1..Len(stack) |->
                     IF j = Len(stack)
                     THEN [stack[j] EXCEPT !.k = "notify", !.ls = ls,
                                           !.snapL = arrays[ls],
                                           !.i = 0, !.ops = 0]
                     ELSE IF stack[j].k = "notify"
                          THEN [stack[j] EXCEPT !.nested = TRUE]
                          ELSE stack[j]]
      /\ arrays' = Gc(arrays, ls, nextListeners, stack')
      /\ UNCHANGED <<calls, created, currentReducer, nextListeners, subs, exc,
                     ret, reg, seen, enh>>

\* the reducer returns: currentState = <result>; finally isDispatching = false;
\* const listeners = (currentListeners = nextListeners)
ReducerReturn ==
  /\ exc = "none"
  /\ stack # <<>>
  /\ Top.k = "reducer"
  /\ currentState' = Reduce(Top.r, Top.s, Top.a)
  /\ isDispatching' = FALSE
  /\ currentListeners' = nextListeners
  /\ stack' = [j \in 1..Len(stack) |->
                 IF j = Len(stack)
                 THEN [stack[j] EXCEPT !.k = "notify", !.ls = nextListeners,
                                       !.snapL = arrays[nextListeners],
                                       !.i = 0, !.ops = 0]
                 ELSE IF stack[j].k = "notify"
                      THEN [stack[j] EXCEPT !.nested = TRUE]
                      ELSE stack[j]]
  /\ arrays' = Gc(arrays, nextListeners, nextListeners, stack')
  /\ UNCHANGED <<calls, created, currentReducer, nextListeners, subs, exc, ret, reg, seen,
                 enh>>

\* one turn of the loop: const listener = listeners[i]; listener()
NotifyStep ==
  /\ exc = "none"
  /\ stack # <<>>
  /\ Top.k = "notify"
  /\ Top.i < Len(arrays[Top.ls])
  /\ LET fn == arrays[Top.ls][Top.i + 1]
     IN  /\ stack' = Append([stack EXCEPT ![Len(stack)].inv = Append(@, fn)],
                            ListenerFrame(fn))
         /\ seen' = [seen EXCEPT ![fn] = currentState]
  /\ UNCHANGED <<calls, created, currentReducer, currentState, currentListeners,
                 nextListeners, isDispatching, arrays, subs, exc, ret,
                 reg, enh>>

\* the listener returns to the loop: i++
ListenerReturn ==
  /\ exc = "none"
  /\ stack # <<>>
  /\ Top.k = "listener"
  /\ Top.via # "observe"
  /\ stack' = [Pop(stack, 1) EXCEPT ![Len(stack) - 1].i = @ + 1]
  /\ seen' = [seen EXCEPT ![Top.fn] = currentState]
  /\ UNCHANGED <<calls, created, currentReducer, currentState, currentListeners,
                 nextListeners, isDispatching, arrays, subs, exc, ret, reg,
                 enh>>

OpOf(via) ==
  IF via = "replace" THEN "replaceReducer"
  ELSE IF via = "observe" THEN "observable.subscribe"
  ELSE IF via \in {"init", "map", "wrap"} THEN "createStore" ELSE "dispatch"

\* variant: dispatch returns undefined
ValOf_ReturnsUndefined(fr) ==
  IF fr.via = "user" THEN NoAct ELSE StoreObj("base")

\* what the call that owns a dispatch frame returns: dispatch returns the
\* action, replaceReducer and createStore return the store
ValOf(fr) == IF fr.via = "user" THEN fr.a ELSE StoreObj("base")

\* variant: the loop stops one listener short
DispatchReturn_SkipsLast ==
  /\ exc = "none"
  /\ stack # <<>>
  /\ Top.k = "notify"
  /\ Top.i + 1 >= Len(arrays[Top.ls])
  /\ stack' = Pop(stack, 1)
  /\ ret' = RetOf(Top, OpOf(Top.via), "ok", ValOf(Top), Len(stack) - 1,
                  currentState, isDispatching)
  /\ created' = (created \/ (Top.via = "init" /\ enh.phase = "none"))
  /\ enh' = IF Top.via = "init" /\ enh.phase = "base"
            THEN [enh EXCEPT !.phase = "setup"] ELSE enh
  /\ arrays' = Gc(arrays, currentListeners, nextListeners, stack')
  /\ UNCHANGED <<calls, currentReducer, currentState, currentListeners,
                 nextListeners, isDispatching, subs, exc,
                 reg, seen>>

\* the loop is over: return action
DispatchReturn ==
  /\ exc = "none"
  /\ stack # <<>>
  /\ Top.k = "notify"
  /\ Top.i >= Len(arrays[Top.ls])
  /\ stack' = Pop(stack, 1)
  /\ ret' = RetOf(Top, OpOf(Top.via), "ok", ValOf(Top), Len(stack) - 1,
                  currentState, isDispatching)
  /\ created' = (created \/ (Top.via = "init" /\ enh.phase = "none"))
  /\ enh' = IF Top.via = "init" /\ enh.phase = "base"
            THEN [enh EXCEPT !.phase = "setup"] ELSE enh
  /\ arrays' = Gc(arrays, currentListeners, nextListeners, stack')
  /\ UNCHANGED <<calls, currentReducer, currentState, currentListeners,
                 nextListeners, isDispatching, subs, exc,
                 reg, seen>>

\* ------------------------------------------------------------- exceptions
\* An exception leaves the running body.  dispatch has no catch: leaving a
\* reducer body ends the dispatch call through its finally block, leaving a
\* listener body ends the dispatch call whose loop was running it.
\* variant: dispatch without its finally block
Unwind_NoFinally(err) ==
  LET n == IF Top.k = "listener" /\ Top.via # "observe" THEN 2 ELSE 1
      fr == stack[Len(stack) - n + 1]
      rest == Pop(stack, n)
  IN  /\ stack' = rest
      /\ isDispatching' = isDispatching
      /\ exc' = IF rest = <<>> THEN "none" ELSE err
      /\ ret' = RetOf(fr, OpOf(fr.via), err, Undef, Len(rest), currentState,
                      isDispatching)
      /\ arrays' = Gc(arrays, currentListeners, nextListeners, rest)
      /\ enh' = IF fr.k = "setup" THEN [enh EXCEPT !.phase = "failed"] ELSE enh

\* variant: the loop catches what a listener throws and goes on
Unwind_SwallowsListenerError(err) ==
  LET inLoop == Top.k = "listener" /\ Top.via # "observe"
      fr == Top
      rest == IF inLoop
              THEN [Pop(stack, 1) EXCEPT ![Len(stack) - 1].i = @ + 1]
              ELSE Pop(stack, 1)
      flag == IF Top.k = "reducer" THEN FALSE ELSE isDispatching
  IN  /\ stack' = rest
      /\ isDispatching' = flag
      /\ exc' = IF rest = <<>> \/ inLoop THEN "none" ELSE err
      /\ ret' = RetOf(fr, OpOf(fr.via), err, Undef, Len(rest), currentState,
                      flag)
      /\ arrays' = Gc(arrays, currentListeners, nextListeners, rest)
      /\ enh' = IF fr.k = "setup" THEN [enh EXCEPT !.phase = "failed"] ELSE enh

\* the frames the exception ends, and the store after it
Unwind(err) ==
  LET n == IF Top.k = "listener" /\ Top.via # "observe" THEN 2 ELSE 1
      fr == stack[Len(stack) - n + 1]
      rest == Pop(stack, n)
      flag == IF Top.k = "reducer" THEN FALSE ELSE isDispatching
  IN  /\ stack' = rest
      /\ isDispatching' = flag
      /\ exc' = IF rest = <<>> THEN "none" ELSE err
      /\ ret' = RetOf(fr, OpOf(fr.via), err, Undef, Len(rest), currentState,
                      flag)
      /\ arrays' = Gc(arrays, currentListeners, nextListeners, rest)
      /\ enh' = IF fr.k = "setup" THEN [enh EXCEPT !.phase = "failed"] ELSE enh

\* the body lets the exception of a call it made pass
Propagate ==
  /\ exc # "none"
  /\ stack # <<>>
  /\ Unwind(exc)
  /\ UNCHANGED <<calls, created, currentReducer, currentState, currentListeners,
                 nextListeners, subs, reg, seen>>

\* the body catches the exception of a call it made and goes on
Catch ==
  /\ exc # "none"
  /\ stack # <<>>
  /\ exc' = "none"
  /\ UNCHANGED <<calls, created, currentReducer, currentState, currentListeners,
                 nextListeners, isDispatching, arrays, subs, stack, ret, reg, seen,
                 enh>>

\* the reducer or the listener throws an error of its own
Throw ==
  /\ exc = "none"
  /\ stack # <<>>
  /\ Top.k \in {"listener", "reducer"}
  /\ Top.fn # "O0"
  /\ Unwind(IF Top.k = "reducer" THEN "ReducerError" ELSE "ListenerError")
  /\ UNCHANGED <<calls, created, currentReducer, currentState, currentListeners,
                 nextListeners, subs, reg, seen>>

\* --------------------------------------------------------------- getState
\* variant: getState without the isDispatching check
GetState_NoCheck ==
  /\ InBody
  /\ ret' = Ret("getState", "ok", currentState)
  /\ stack' = Used(stack)
  /\ exc' = exc
  /\ UNCHANGED <<created, currentReducer, currentState, currentListeners,
                 nextListeners, isDispatching, arrays, subs,
                 reg, seen, enh>>

GetState ==
  /\ InBody
  /\ IF isDispatching
     THEN Fails("getState", "IllegalReentrantRead")
     ELSE /\ ret' = Ret("getState", "ok", currentState)
          /\ stack' = Used(stack)
          /\ exc' = exc
  /\ UNCHANGED <<created, currentReducer, currentState, currentListeners,
                 nextListeners, isDispatching, arrays, subs,
                 reg, seen, enh>>

\* -------------------------------------------------------------- subscribe
\* variant: subscribe without the isDispatching check
Subscribe_NoReentrancyCheck(fn) ==
  /\ InBody
  /\ IF fn = NotFn
     THEN /\ Fails("subscribe", "InvalidArgument")
          /\ UNCHANGED <<nextListeners, arrays, subs, reg>>
     ELSE /\ Len(subs) < MaxSubs
          /\ nextListeners' = ensureCanMutateNextListeners.nxt
          /\ arrays' = [ensureCanMutateNextListeners.arr
                          EXCEPT ![ensureCanMutateNextListeners.nxt] =
                                   Append(@, fn)]
          /\ subs' = Append(subs, [fn |-> fn, isSubscribed |-> TRUE])
          /\ reg' = Append(reg, Len(subs) + 1)
          /\ ret' = Ret("subscribe", "ok", Len(subs) + 1)
          /\ stack' = Used(stack)
          /\ exc' = exc
  /\ UNCHANGED <<created, currentReducer, currentState, currentListeners,
                 isDispatching, seen, enh>>

Subscribe(fn) ==
  /\ InBody
  /\ IF fn = NotFn \/ isDispatching
     THEN /\ Fails("subscribe",
                   IF fn = NotFn THEN "InvalidArgument" ELSE "ReentrantSubscribe")
          /\ UNCHANGED <<nextListeners, arrays, subs, reg>>
     ELSE /\ Len(subs) < MaxSubs
          /\ nextListeners' = ensureCanMutateNextListeners.nxt
          /\ arrays' = [ensureCanMutateNextListeners.arr
                          EXCEPT ![ensureCanMutateNextListeners.nxt] =
                                   Append(@, fn)]
          /\ subs' = Append(subs, [fn |-> fn, isSubscribed |-> TRUE])
          /\ reg' = Append(reg, Len(subs) + 1)
          /\ ret' = Ret("subscribe", "ok", Len(subs) + 1)
          /\ stack' = Used(stack)
          /\ exc' = exc
  /\ UNCHANGED <<created, currentReducer, currentState, currentListeners,
                 isDispatching, seen, enh>>

\* nextListeners after indexOf(listener) and splice(index, 1)
RemoveListener(seq, fn) == Splice1(seq, IndexOf(seq, fn))

\* variant: unsubscribe without the isSubscribed check
Unsubscribe_NoSubscribedCheck(j) ==
  /\ InBody
  /\ IF isDispatching
     THEN /\ Fails("unsubscribe", "ReentrantUnsubscribe")
          /\ UNCHANGED <<currentListeners, nextListeners, arrays, subs, reg>>
     ELSE /\ subs' = [subs EXCEPT ![j].isSubscribed = FALSE]
          /\ nextListeners' = ensureCanMutateNextListeners.nxt
          /\ currentListeners' = Null
          /\ arrays' = Gc([ensureCanMutateNextListeners.arr
                             EXCEPT ![ensureCanMutateNextListeners.nxt] =
                                      RemoveListener(@, subs[j].fn)],
                          Null, ensureCanMutateNextListeners.nxt, stack)
          /\ reg' = SelectSeq(reg, LAMBDA q : q # j)
          /\ ret' = Ret("unsubscribe", "ok", Undef)
          /\ stack' = Used(stack)
          /\ exc' = exc
  /\ UNCHANGED <<created, currentReducer, currentState, isDispatching, seen, enh>>

\* variant: unsubscribe without the isDispatching check
Unsubscribe_NoReentrancyCheck(j) ==
  /\ InBody
  /\ IF ~subs[j].isSubscribed
     THEN /\ ret' = Ret("unsubscribe", "ok", Undef)
          /\ stack' = Used(stack)
          /\ exc' = exc
          /\ UNCHANGED <<currentListeners, nextListeners, arrays, subs, reg>>
     ELSE /\ subs' = [subs EXCEPT ![j].isSubscribed = FALSE]
          /\ nextListeners' = ensureCanMutateNextListeners.nxt
          /\ currentListeners' = Null
          /\ arrays' = Gc([ensureCanMutateNextListeners.arr
                             EXCEPT ![ensureCanMutateNextListeners.nxt] =
                                      RemoveListener(@, subs[j].fn)],
                          Null, ensureCanMutateNextListeners.nxt, stack)
          /\ reg' = SelectSeq(reg, LAMBDA q : q # j)
          /\ ret' = Ret("unsubscribe", "ok", Undef)
          /\ stack' = Used(stack)
          /\ exc' = exc
  /\ UNCHANGED <<created, currentReducer, currentState, isDispatching, seen, enh>>

\* the function returned by the j-th subscribe call
Unsubscribe(j) ==
  /\ InBody
  /\ IF ~subs[j].isSubscribed
     THEN /\ ret' = Ret("unsubscribe", "ok", Undef)
          /\ stack' = Used(stack)
          /\ exc' = exc
          /\ UNCHANGED <<currentListeners, nextListeners, arrays, subs, reg>>
     ELSE IF isDispatching
     THEN /\ Fails("unsubscribe", "ReentrantUnsubscribe")
          /\ UNCHANGED <<currentListeners, nextListeners, arrays, subs, reg>>
     ELSE /\ subs' = [subs EXCEPT ![j].isSubscribed = FALSE]
          /\ nextListeners' = ensureCanMutateNextListeners.nxt
          /\ currentListeners' = Null
          /\ arrays' = Gc([ensureCanMutateNextListeners.arr
                             EXCEPT ![ensureCanMutateNextListeners.nxt] =
                                      RemoveListener(@, subs[j].fn)],
                          Null, ensureCanMutateNextListeners.nxt, stack)
          /\ reg' = SelectSeq(reg, LAMBDA q : q # j)
          /\ ret' = Ret("unsubscribe", "ok", Undef)
          /\ stack' = Used(stack)
          /\ exc' = exc
  /\ UNCHANGED <<created, currentReducer, currentState, isDispatching, seen, enh>>

\* ------------------------------------------------------------- observable
\* outerSubscribe(observeState) past its checks: the registry with fn pushed
PushListener(fn) ==
  /\ nextListeners' = ensureCanMutateNextListeners.nxt
  /\ arrays' = [ensureCanMutateNextListeners.arr
                  EXCEPT ![ensureCanMutateNextListeners.nxt] = Append(@, fn)]
  /\ subs' = Append(subs, [fn |-> fn, isSubscribed |-> TRUE])
  /\ reg' = Append(reg, Len(subs) + 1)

\* variant: the observer is subscribed without the first call of observeState
ObservableSubscribe_NoFirstPush(o) ==
  /\ InBody
  /\ IF o.t # "object"
     THEN /\ Fails("observable.subscribe", "InvalidArgument")
          /\ UNCHANGED <<nextListeners, arrays, subs, reg, seen>>
     ELSE IF isDispatching
     THEN /\ Fails("observable.subscribe", "ReentrantSubscribe")
          /\ UNCHANGED <<nextListeners, arrays, subs, reg, seen>>
     ELSE /\ Len(subs) < MaxSubs
          /\ PushListener(ObserveFn(o))
          /\ ret' = Ret("observable.subscribe", "ok", Len(subs) + 1)
          /\ stack' = Used(stack)
          /\ exc' = exc
          /\ seen' = seen
  /\ UNCHANGED <<created, currentReducer, currentState, currentListeners,
                 isDispatching, enh>>

\* observable().subscribe(o) up to the point where the body of o.next starts
\* to run, or to its end when o has no next: the check of the observer, then
\* observeState(), then outerSubscribe(observeState)
ObservableSubscribe(o) ==
  /\ InBody
  /\ IF o.t # "object"
     THEN /\ Fails("observable.subscribe", "InvalidArgument")
          /\ UNCHANGED <<nextListeners, arrays, subs, reg, seen>>
     ELSE IF o.next
     THEN IF isDispatching
          THEN /\ Fails("observable.subscribe", "IllegalReentrantRead")
               /\ UNCHANGED <<nextListeners, arrays, subs, reg, seen>>
          ELSE /\ Len(subs) < MaxSubs
               /\ Depth(stack) + 1 <= MaxDepth
               /\ stack' = Append(Used(stack), ObserveFrame(ObserveFn(o)))
               /\ seen' = [seen EXCEPT ![ObserveFn(o)] = currentState]
               /\ ret' = Ret("observable.subscribe", "running", Undef)
               /\ exc' = exc
               /\ UNCHANGED <<nextListeners, arrays, subs, reg>>
     ELSE IF isDispatching
     THEN /\ Fails("observable.subscribe", "ReentrantSubscribe")
          /\ UNCHANGED <<nextListeners, arrays, subs, reg, seen>>
     ELSE /\ Len(subs) < MaxSubs
          /\ PushListener(ObserveFn(o))
          /\ ret' = Ret("observable.subscribe", "ok", Len(subs) + 1)
          /\ stack' = Used(stack)
          /\ exc' = exc
          /\ seen' = seen
  /\ UNCHANGED <<created, currentReducer, currentState, currentListeners,
                 isDispatching, enh>>

\* the first call of o.next has returned: const unsubscribe =
\* outerSubscribe(observeState); return { unsubscribe }
ObserveReturn ==
  /\ exc = "none"
  /\ stack # <<>>
  /\ Top.k = "listener"
  /\ Top.via = "observe"
  /\ IF isDispatching
     THEN /\ ret' = RetOf(Top, "observable.subscribe", "ReentrantSubscribe",
                          Undef, Len(stack) - 1, currentState, isDispatching)
          /\ exc' = IF Len(stack) = 1 THEN "none" ELSE "ReentrantSubscribe"
          /\ UNCHANGED <<nextListeners, arrays, subs, reg>>
     ELSE /\ Len(subs) < MaxSubs
          /\ PushListener(Top.fn)
          /\ ret' = RetOf(Top, "observable.subscribe", "ok", Len(subs) + 1,
                          Len(stack) - 1, currentState, isDispatching)
          /\ exc' = exc
  /\ stack' = Pop(stack, 1)
  /\ UNCHANGED <<created, currentReducer, currentState, currentListeners,
                 isDispatching, calls, seen, enh>>

\* --------------------------------------------------------- replaceReducer
\* variant: REPLACE is dispatched but the new reducer is not installed
ReplaceReducer_KeepsOld(nextReducer) ==
  /\ InBody
  /\ IF nextReducer = NotFn
     THEN /\ Fails("replaceReducer", "InvalidArgument")
          /\ UNCHANGED <<isDispatching>>
     ELSE StartDispatch("replaceReducer", "replace", nextReducer,
                        PlainAction(REPLACE), currentReducer)
  /\ UNCHANGED <<created, currentReducer, currentState, currentListeners,
                 nextListeners, arrays, subs, reg, seen, enh>>

\* variant: replaceReducer dispatches REPLACE on the store's outer dispatch
ReplaceReducer_ThroughChain(nextReducer) ==
  /\ InBody
  /\ IF nextReducer = NotFn
     THEN /\ Fails("replaceReducer", "InvalidArgument")
          /\ UNCHANGED <<currentReducer, isDispatching>>
     ELSE /\ currentReducer' = nextReducer
          /\ IF enh.phase = "bound" /\ enh.mws # <<>>
             THEN /\ stack' = Append(Used(stack),
                                     [NoFrame EXCEPT !.k = "mw", !.via = "store",
                                                     !.i = 1, !.fn = enh.mws[1],
                                                     !.a = PlainAction(REPLACE)])
                  /\ ret' = Ret("dispatch", "running", Undef)
                  /\ exc' = exc
                  /\ isDispatching' = isDispatching
             ELSE StartDispatch("replaceReducer", "replace", nextReducer,
                                PlainAction(REPLACE), currentReducer')
  /\ UNCHANGED <<created, currentState, currentListeners, nextListeners,
                 arrays, subs, reg, seen, enh>>

\* variant: replaceReducer looks at isDispatching before it installs
ReplaceReducer_ChecksFirst(nextReducer) ==
  /\ InBody
  /\ IF nextReducer = NotFn
     THEN /\ Fails("replaceReducer", "InvalidArgument")
          /\ UNCHANGED <<currentReducer, isDispatching>>
     ELSE IF isDispatching
     THEN /\ Fails("replaceReducer", "ReentrantDispatch")
          /\ UNCHANGED <<currentReducer, isDispatching>>
     ELSE /\ currentReducer' = nextReducer
          /\ StartDispatch("replaceReducer", "replace", nextReducer,
                           PlainAction(REPLACE), currentReducer')
  /\ UNCHANGED <<created, currentState, currentListeners, nextListeners,
                 arrays, subs, reg, seen, enh>>

\* variant: the reducer is installed before the argument is checked
ReplaceReducer_AssignsFirst(nextReducer) ==
  /\ InBody
  /\ currentReducer' = nextReducer
  /\ IF nextReducer = NotFn
     THEN /\ Fails("replaceReducer", "InvalidArgument")
          /\ UNCHANGED <<isDispatching>>
     ELSE StartDispatch("replaceReducer", "replace", nextReducer,
                        PlainAction(REPLACE), currentReducer')
  /\ UNCHANGED <<created, currentState, currentListeners, nextListeners,
                 arrays, subs, reg, seen, enh>>

ReplaceReducer(nextReducer) ==
  /\ InBody
  /\ IF nextReducer = NotFn
     THEN /\ Fails("replaceReducer", "InvalidArgument")
          /\ UNCHANGED <<currentReducer, isDispatching>>
     ELSE /\ currentReducer' = nextReducer
          /\ StartDispatch("replaceReducer", "replace", nextReducer,
                           PlainAction(REPLACE), currentReducer')
  /\ UNCHANGED <<created, currentState, currentListeners, nextListeners,
                 arrays, subs, reg, seen, enh>>

\* ------------------------------------------------------------ createStore
\* variant: the store starts from undefined whatever preloadedState is
CreateStore_DropsPreloaded(reducer, preloadedState) ==
  /\ ~created
  /\ stack = <<>>
  /\ reducer # NotFn
  /\ currentReducer' = reducer
  /\ currentState' = Undef
  /\ currentListeners' = 1
  /\ nextListeners' = 1
  /\ arrays' = [id \in ArrIds |-> <<>>]
  /\ isDispatching' = TRUE
  /\ stack' = <<[DispatchFrame("init", reducer, PlainAction(INIT), reducer,
                               currentState')
                   EXCEPT !.preS = preloadedState, !.preR = reducer]>>
  /\ ret' = Ret("createStore", "running", Undef)
  /\ UNCHANGED <<calls, created, subs, exc, reg, seen>>

\* createStore(reducer, preloadedState) up to the point where the reducer body
\* starts to run on the INIT action
CreateStore(reducer, preloadedState) ==
  /\ ~created
  /\ stack = <<>>
  /\ IF reducer = NotFn
     THEN /\ ret' = Ret("createStore", "InvalidArgument", Undef)
          /\ UNCHANGED <<currentReducer, currentState, currentListeners,
                         nextListeners, isDispatching, arrays, stack>>
     ELSE /\ currentReducer' = reducer
          /\ currentState' = preloadedState
          /\ currentListeners' = 1
          /\ nextListeners' = 1
          /\ arrays' = [id \in ArrIds |-> <<>>]
          /\ isDispatching' = TRUE
          /\ stack' = <<[DispatchFrame("init", reducer, PlainAction(INIT),
                                       reducer, currentState')
                           EXCEPT !.preS = preloadedState, !.preR = reducer]>>
          /\ ret' = Ret("createStore", "running", Undef)
  /\ UNCHANGED <<calls, created, subs, exc, reg, seen>>

\* variant: createStore without its check for several enhancers
ResolveArgs_NoAmbiguityCheck(preloadedState, enhancer, arg4) ==
  LET shift == preloadedState.t = "function" /\ enhancer.t = "undefined"
      e == IF shift THEN preloadedState ELSE enhancer
      ps == IF shift THEN Und ELSE preloadedState
  IN  IF e.t \notin {"undefined", "function"}
      THEN [err |-> "InvalidArgument", enhancer |-> e, preloaded |-> ps]
      ELSE [err |-> "none", enhancer |-> e, preloaded |-> ps]

\* the head of createStore: what the argument slots resolve to, or the error
ResolveArgs(preloadedState, enhancer, arg4) ==
  IF \/ preloadedState.t = "function" /\ enhancer.t = "function"
     \/ enhancer.t = "function" /\ arg4.t = "function"
  THEN [err |-> "AmbiguousEnhancer", enhancer |-> enhancer,
        preloaded |-> preloadedState]
  ELSE LET shift == preloadedState.t = "function" /\ enhancer.t = "undefined"
           e == IF shift THEN preloadedState ELSE enhancer
           ps == IF shift THEN Und ELSE preloadedState
       IN  IF e.t \notin {"undefined", "function"}
           THEN [err |-> "InvalidArgument", enhancer |-> e, preloaded |-> ps]
           ELSE [err |-> "none", enhancer |-> e, preloaded |-> ps]

\* variant: the enhancer is called without the preloaded state
EnhancerCall_DropsPreloaded(reducer, res) ==
  /\ CreateStore(reducer, Undef)
  /\ enh' = IF reducer = NotFn THEN NoEnh
            ELSE [mws |-> SubSeq(Middlewares, 1, res.enhancer.n),
                  phase |-> "base", made |-> 0, wrapped |-> 0]

\* return enhancer(createStore)(reducer, preloadedState), the enhancer being
\* applyMiddleware(...): const store = createStore(reducer, preloadedState)
EnhancerCall(reducer, res) ==
  /\ CreateStore(reducer, res.preloaded.v)
  /\ enh' = IF reducer = NotFn THEN NoEnh
            ELSE [mws |-> SubSeq(Middlewares, 1, res.enhancer.n),
                  phase |-> "base", made |-> 0, wrapped |-> 0]

\* createStore(reducer, preloadedState, enhancer, arg4) as the caller calls it
CreateStoreCall(reducer, preloadedState, enhancer, arg4) ==
  /\ ~created
  /\ stack = <<>>
  /\ enh.phase # "setup"
  /\ LET res == ResolveArgs(preloadedState, enhancer, arg4)
     IN  IF res.err # "none"
         THEN /\ ret' = Ret("createStore", res.err, Undef)
              /\ enh' = NoEnh
              /\ UNCHANGED <<created, currentReducer, currentState,
                             currentListeners, nextListeners, isDispatching,
                             arrays, subs, stack, exc, calls, reg, seen>>
         ELSE IF res.enhancer.t = "function"
         THEN EnhancerCall(reducer, res)
         ELSE /\ CreateStore(reducer, res.preloaded.v)
              /\ enh' = NoEnh

\* -------------------------------------------------------- applyMiddleware
\* A function built from the wrappers of the chain is the sequence of their
\* chain indexes, the outermost first: chain[j] alone is <<j>>, the function
\* args => a(b(args)) is a \o b, the identity is <<>>.
RECURSIVE ReduceCompose_Reversed(_, _)
ReduceCompose_Reversed(acc, funcs) ==
  IF funcs = <<>> THEN acc
  ELSE ReduceCompose_Reversed(Head(funcs) \o acc, Tail(funcs))

\* variant: compose builds b(a(...args))
compose_Reversed(funcs) ==
  IF Len(funcs) = 0 THEN <<>>
  ELSE IF Len(funcs) = 1 THEN funcs[1]
  ELSE ReduceCompose_Reversed(Head(funcs), Tail(funcs))

\* funcs.reduce((a, b) => (...args) => a(b(...args))) from accumulator acc
RECURSIVE ReduceCompose(_, _)
ReduceCompose(acc, funcs) ==
  IF funcs = <<>> THEN acc
  ELSE ReduceCompose(acc \o Head(funcs), Tail(funcs))

compose(funcs) ==
  IF Len(funcs) = 0 THEN <<>>
  ELSE IF Len(funcs) = 1 THEN funcs[1]
  ELSE ReduceCompose(Head(funcs), Tail(funcs))

\* compose(...chain): position p of the composed dispatch runs chain[Chain[p]]
Chain == compose([j \in 1..Len(enh.mws) |-> <<j>>])

\* the wrapper at position pos of the composed dispatch, called with action v
\* through next ("next"), through the dispatch of the middleware API ("api")
\* or by the holder of the store ("store")
MwFrame(pos, via, v) ==
  [NoFrame EXCEPT !.k = "mw", !.via = via, !.i = pos,
                  !.fn = enh.mws[Chain[pos]], !.a = v]

\* the body of middleware(middlewareAPI) ("map") or of chain[j](next) ("wrap")
SetupFrame(via, j) ==
  [NoFrame EXCEPT !.k = "setup", !.via = via, !.i = j, !.fn = enh.mws[j]]

\* middlewares.map(middleware => middleware(middlewareAPI)): the next call
MiddlewareInit ==
  /\ enh.phase = "setup"
  /\ stack = <<>>
  /\ enh.made < Len(enh.mws)
  /\ stack' = <<SetupFrame("map", enh.made + 1)>>
  /\ UNCHANGED <<created, currentReducer, currentState, currentListeners,
                 nextListeners, isDispatching, arrays, subs, exc, ret, calls,
                 reg, seen, enh>>

\* compose(...chain)(store.dispatch): the next call of a chain[j], the
\* innermost first
ComposeWrap ==
  /\ enh.phase = "setup"
  /\ stack = <<>>
  /\ enh.made = Len(enh.mws)
  /\ enh.wrapped < Len(Chain)
  /\ stack' = <<SetupFrame("wrap", Chain[Len(Chain) - enh.wrapped])>>
  /\ UNCHANGED <<created, currentReducer, currentState, currentListeners,
                 nextListeners, isDispatching, arrays, subs, exc, ret, calls,
                 reg, seen, enh>>

\* a body of the setup is running
InSetup ==
  /\ exc = "none"
  /\ stack # <<>>
  /\ Top.k = "setup"

\* variant: the dispatch of the middleware API is store.dispatch from the start
SetupDispatch_Forwards(v) ==
  /\ InSetup
  /\ Top.ops < MaxOps
  /\ calls < MaxCalls
  /\ calls' = calls + 1
  /\ StartDispatch("dispatch", "user", "none", v, currentReducer)
  /\ UNCHANGED <<created, currentReducer, currentState, currentListeners,
                 nextListeners, arrays, subs, reg, seen, enh>>

\* middlewareAPI.dispatch(v) while dispatch is still the placeholder
SetupDispatch(v) ==
  /\ InSetup
  /\ Top.ops < MaxOps
  /\ calls < MaxCalls
  /\ calls' = calls + 1
  /\ Fails("dispatch", "PrematureDispatch")
  /\ UNCHANGED <<created, currentReducer, currentState, currentListeners,
                 nextListeners, isDispatching, arrays, subs, reg, seen, enh>>

\* the body returns the wrapper factory or the wrapper
SetupReturn ==
  /\ InSetup
  /\ stack' = Pop(stack, 1)
  /\ enh' = IF Top.via = "map" THEN [enh EXCEPT !.made = @ + 1]
            ELSE [enh EXCEPT !.wrapped = @ + 1]
  /\ UNCHANGED <<created, currentReducer, currentState, currentListeners,
                 nextListeners, isDispatching, arrays, subs, exc, ret, calls,
                 reg, seen>>

\* dispatch = compose(...chain)(store.dispatch); return {...store, dispatch}
ReturnEnhanced ==
  /\ enh.phase = "setup"
  /\ stack = <<>>
  /\ enh.made = Len(enh.mws)
  /\ enh.wrapped = Len(Chain)
  /\ enh' = [enh EXCEPT !.phase = "bound"]
  /\ created' = TRUE
  /\ ret' = RetOf(NoFrame, "createStore", "ok", StoreObj("enhanced"), 0,
                  currentState, isDispatching)
  /\ UNCHANGED <<currentReducer, currentState, currentListeners, nextListeners,
                 isDispatching, arrays, subs, stack, exc, calls, reg, seen>>

\* the composed dispatch called with v from the running body
ComposedDispatch(via, v) ==
  IF Chain = <<>>
  THEN StartDispatch("dispatch", "user", "none", v, currentReducer)
  ELSE /\ stack' = Append(Used(stack), MwFrame(1, via, v))
       /\ ret' = Ret("dispatch", "running", Undef)
       /\ exc' = exc
       /\ isDispatching' = isDispatching

\* dispatch(v) on the store applyMiddleware returned
EnhDispatch(v) ==
  /\ InBody
  /\ enh.phase = "bound"
  /\ ComposedDispatch("store", v)
  /\ UNCHANGED <<created, currentReducer, currentState, currentListeners,
                 nextListeners, arrays, subs, reg, seen, enh>>

\* the body of a wrapper is running
InMw ==
  /\ exc = "none"
  /\ stack # <<>>
  /\ Top.k = "mw"
  /\ Top.ops < MaxOps
  /\ calls < MaxCalls
  /\ calls' = calls + 1

\* the stage next stands for in the wrapper at position pos
NextStage(pos) == IF pos < Len(Chain) THEN enh.mws[Chain[pos + 1]] ELSE "base"

\* stack with the call of next logged in the wrapper on top
Logged(stk) == [stk EXCEPT ![Len(stk)].inv = Append(@, NextStage(Top.i))]

\* variant: the innermost next assigns the state without dispatch's checks
MwNext_Bypass ==
  /\ InMw
  /\ IF Top.i < Len(Chain)
     THEN /\ stack' = Append(Used(Logged(stack)),
                             MwFrame(Top.i + 1, "next", Top.a))
          /\ ret' = Ret("dispatch", "running", Undef)
          /\ exc' = exc
          /\ isDispatching' = isDispatching
     ELSE /\ Depth(stack) + 2 <= MaxDepth
          /\ isDispatching' = TRUE
          /\ stack' = Append(Used(Logged(stack)),
                             DispatchFrame("user", "none", Top.a,
                                           currentReducer, currentState))
          /\ ret' = Ret("dispatch", "running", Undef)
          /\ exc' = exc
  /\ UNCHANGED <<created, currentReducer, currentState, currentListeners,
                 nextListeners, arrays, subs, reg, seen, enh>>

\* next(action) in a wrapper: the next wrapper, or store.dispatch innermost
MwNext ==
  /\ InMw
  /\ IF Top.i < Len(Chain)
     THEN /\ stack' = Append(Used(Logged(stack)),
                             MwFrame(Top.i + 1, "next", Top.a))
          /\ ret' = Ret("dispatch", "running", Undef)
          /\ exc' = exc
          /\ isDispatching' = isDispatching
     ELSE LET logged == Logged(stack)
          IN  IF DispatchCheck(Top.a) # "ok"
              THEN /\ ret' = Ret("dispatch", DispatchCheck(Top.a), Undef)
                   /\ exc' = DispatchCheck(Top.a)
                   /\ stack' = Used(logged)
                   /\ isDispatching' = isDispatching
              ELSE /\ Depth(stack) + 2 <= MaxDepth
                   /\ isDispatching' = TRUE
                   /\ stack' = Append(Used(logged),
                                      DispatchFrame("user", "none",
                                        ReducerArgs(currentReducer, Top.a).a,
                                        ReducerArgs(currentReducer, Top.a).r,
                                        ReducerArgs(currentReducer, Top.a).s))
                   /\ ret' = Ret("dispatch", "running", Undef)
                   /\ exc' = exc
  /\ UNCHANGED <<created, currentReducer, currentState, currentListeners,
                 nextListeners, arrays, subs, reg, seen, enh>>

\* variant: the dispatch of the middleware API is the wrapper's own next
MwDispatch_CallsNext(v) ==
  /\ InMw
  /\ IF Top.i < Len(Chain)
     THEN /\ stack' = Append(Used(stack), MwFrame(Top.i + 1, "api", v))
          /\ ret' = Ret("dispatch", "running", Undef)
          /\ exc' = exc
          /\ isDispatching' = isDispatching
     ELSE StartDispatch("dispatch", "user", "none", v, currentReducer)
  /\ UNCHANGED <<created, currentReducer, currentState, currentListeners,
                 nextListeners, arrays, subs, reg, seen, enh>>

\* middlewareAPI.dispatch(v) in a wrapper: (action, ...args) => dispatch(...)
MwDispatch(v) ==
  /\ InMw
  /\ ComposedDispatch("api", v)
  /\ UNCHANGED <<created, currentReducer, currentState, currentListeners,
                 nextListeners, arrays, subs, reg, seen, enh>>

\* the call the running wrapper made last has returned a value to it
CallReturned ==
  /\ ret.depth = Len(stack)
  /\ ret.op = "dispatch"
  /\ ret.status = "ok"

\* what a wrapper returns: the result of the call it made last (return
\* next(action), return dispatch(action)), or undefined
MwResult == IF CallReturned THEN ret.val ELSE NoAct

\* the wrapper returns
MwReturn ==
  /\ exc = "none"
  /\ stack # <<>>
  /\ Top.k = "mw"
  /\ stack' = Pop(stack, 1)
  /\ ret' = RetOf(Top, "dispatch", "ok", MwResult, Len(stack) - 1,
                  currentState, isDispatching)
  /\ UNCHANGED <<created, currentReducer, currentState, currentListeners,
                 nextListeners, isDispatching, arrays, subs, exc, calls, reg,
                 seen, enh>>

\* ------------------------------------------------------------------- Next
Next ==
  \/ \E r \in {"R1", NotFn}, p \in Preloaded :
       CreateStoreCall(r, Slot(p), Und, Und)
  \/ \E v \in ActionVals : Dispatch(v)
  \/ ReducerReturn
  \/ NotifyStep
  \/ ListenerReturn
  \/ DispatchReturn
  \/ Propagate
  \/ Catch
  \/ Throw
  \/ GetState
  \/ \E fn \in Fns \cup {NotFn} : Subscribe(fn)
  \/ \E j \in 1..Len(subs) : Unsubscribe(j)
  \/ \E r \in Reducers \cup {NotFn} : ReplaceReducer(r)

Spec == Init /\ [][Next]_vars

\* ------------------------------------------ stores observed by an observer
\* what is dispatched on an observed store: a valid action and a number
ObsActionVals ==
  {PlainAction("INC"), [kind |-> "number", type |-> "undefined"]}

NextObs ==
  \/ \E p \in Preloaded : CreateStoreCall("R1", Slot(p), Und, Und)
  \/ \E o \in ObserverVals : ObservableSubscribe(o)
  \/ ObserveReturn
  \/ \E v \in ObsActionVals : Dispatch(v)
  \/ ReducerReturn
  \/ NotifyStep
  \/ ListenerReturn
  \/ DispatchReturn
  \/ Propagate
  \/ Catch
  \/ Throw
  \/ GetState
  \/ \E fn \in {"L1", NotFn} : Subscribe(fn)
  \/ \E j \in 1..Len(subs) : Unsubscribe(j)
  \/ \E r \in {"R2", NotFn} : ReplaceReducer(r)

SpecObs == Init /\ [][NextObs]_vars

\* ------------------------------------------- stores built with an enhancer
\* what the argument slots of createStore are filled with
SlotVals == {Und, Val(NStates - 1)} \cup {Enhancer(n) : n \in 0..Len(Middlewares)}
\* the calls of createStore that name an enhancer or fail
EnhCreateArgs ==
  {c \in [r : {"R1", NotFn}, p : {Und, Val(NStates - 1), Enhancer(2)},
          e : SlotVals, a4 : {Und, Enhancer(0)}] :
     \/ c.r = NotFn
     \/ ResolveArgs(c.p, c.e, c.a4).err # "none"
     \/ ResolveArgs(c.p, c.e, c.a4).enhancer.t = "function"}
\* what is dispatched on a store with middleware: two plain actions and a
\* function (a thunk), which only a middleware can handle
MwActionVals ==
  {PlainAction("INC"), PlainAction("UNK"),
   [kind |-> "function", type |-> "undefined"]}

NextMw ==
  \/ \E c \in EnhCreateArgs : CreateStoreCall(c.r, c.p, c.e, c.a4)
  \/ MiddlewareInit
  \/ ComposeWrap
  \/ \E v \in MwActionVals : SetupDispatch(v)
  \/ SetupReturn
  \/ ReturnEnhanced
  \/ \E v \in MwActionVals : EnhDispatch(v)
  \/ MwNext
  \/ \E v \in {PlainAction("INC")} : MwDispatch(v)
  \/ MwReturn
  \/ ReducerReturn
  \/ NotifyStep
  \/ ListenerReturn
  \/ DispatchReturn
  \/ Propagate
  \/ Catch
  \/ Throw
  \/ GetState
  \/ \E fn \in {"L1"} : Subscribe(fn)
  \/ \E j \in 1..Len(subs) : Unsubscribe(j)
  \/ \E r \in {"R2"} : ReplaceReducer(r)

SpecMw == Init /\ [][NextMw]_vars

\* ================================================================= claims
ValidActions == {v \in ActionVals : isPlainObject(v) /\ v.type # "undefined"}
Range(seq) == {seq[j] : j \in 1..Len(seq)}
Count(seq, x) == Cardinality({j \in 1..Len(seq) : seq[j] = x})
SameBag(a, b) == \A fn \in Fns : Count(a, fn) = Count(b, fn)
NotifyFrames == {j \in 1..Len(stack) : stack[j].k = "notify"}
\* the dispatch call whose loop runs the listener on top of the stack
Below == stack[Len(stack) - 1]
\* a listener has just been entered and has not called anything yet
ListenerEntered == Len(stack) >= 2 /\ Top.k = "listener" /\ Top.ops = 0 /\ exc = "none"
\* the loop of the dispatch call on top of the stack is over
LoopOver == stack # <<>> /\ Top.k = "notify" /\ Top.i >= Len(arrays[Top.ls])

\* C1: dispatch purity forwarding.  Right after the reducer phase of
\* dispatch(a) - before the first listener, and inside the first listener
\* before it calls anything - the state is R(s, a) for the state s and the
\* reducer R the store had when dispatch was called; the same holds when
\* dispatch has returned and no listener dispatched in between.
C1_DispatchPurity ==
  /\ (stack # <<>> /\ Top.k = "notify" /\ Top.via = "user" /\ Top.i = 0)
       => currentState = Reduce(Top.preR, Top.preS, Top.a)
  /\ (ListenerEntered /\ Below.via = "user" /\ Below.i = 0)
       => currentState = Reduce(Below.preR, Below.preS, Below.a)
  /\ (ret.op = "dispatch" /\ ret.status = "ok" /\ ~ret.f.nested)
       => ret.post = Reduce(ret.f.preR, ret.f.preS, ret.f.a)

\* C1 witness: the first listener of dispatch(a) runs on a state that the
\* reducer changed.
C1_Witness ==
  /\ ListenerEntered
  /\ Below.via = "user"
  /\ Below.i = 0
  /\ currentState # Below.preS

\* C2: initialization.  When createStore hands the store out, the reducer
\* has been invoked for construction once, with (preloadedState, INIT), and
\* the state is its result; the store is not handed out while that
\* invocation runs.
C2_Initialization ==
  /\ (created /\ calls = 0 /\ stack = <<>>)
       => /\ ret.op = "createStore"
          /\ ret.status = "ok"
          /\ ret.f.a = PlainAction(INIT)
          /\ ret.f.r = ret.f.arg
          /\ ret.f.s = ret.f.preS
          /\ currentState = Reduce(ret.f.arg, ret.f.preS, PlainAction(INIT))
  /\ \A j \in 1..Len(stack) :
       stack[j].via = "init" => ~created /\ j = 1 /\ Len(stack) = 1

\* C2 witness: a store created with a preloaded state has just been handed
\* out.
C2_Witness ==
  /\ created
  /\ calls = 0
  /\ stack = <<>>
  /\ ret.f.preS # Undef

\* C3: reentrancy rejection.  While a reducer runs, dispatch of any valid
\* action fails with ReentrantDispatch; no second reducer invocation and no
\* listener ever runs on top of a running reducer; a dispatch call that ends
\* in its reducer phase with that error has changed nothing.
C3_ReentrancyRejection ==
  /\ \A j \in 1..Len(stack) : stack[j].k = "reducer" => j = Len(stack)
  /\ (stack # <<>> /\ Top.k = "reducer")
       => /\ isDispatching
          /\ \A v \in ValidActions : DispatchCheck(v) = "ReentrantDispatch"
  /\ (ret.status = "ReentrantDispatch" /\ ret.f.k = "reducer")
       => /\ ret.f.inv = <<>>
          /\ ret.post = ret.f.preS
          /\ ~ret.flag

\* C3 witness: a top-level dispatch has ended with the ReentrantDispatch
\* error of a dispatch its reducer made.
C3_Witness ==
  /\ stack = <<>>
  /\ ret.op = "dispatch"
  /\ ret.status = "ReentrantDispatch"
  /\ ret.f.k = "reducer"

\* C4: listener snapshot isolation.  The array a dispatch iterates never
\* changes while it is iterated, and the listeners the dispatch has invoked
\* are a prefix of it, in order; the array holds the listeners that were
\* registered when the dispatch was called, so a later dispatch (nested or
\* not) invokes a listener subscribed in between and does not invoke one
\* unsubscribed in between.
C4_SnapshotIsolation ==
  \A j \in NotifyFrames :
    /\ arrays[stack[j].ls] = stack[j].snapL
    /\ SameBag(stack[j].snapL, FnsOf(stack[j].snap))
    /\ Len(stack[j].snapL) = Len(stack[j].snap)
    /\ stack[j].inv =
         SubSeq(stack[j].snapL, 1,
                stack[j].i + (IF j < Len(stack) /\ stack[j + 1].k = "listener"
                              THEN 1 ELSE 0))
    /\ (j = Len(stack) /\ LoopOver) => stack[j].inv = stack[j].snapL

\* C4 witness: a listener of an outer dispatch unsubscribed a listener C
\* that the outer dispatch has not run yet and then dispatched; the nested
\* dispatch has finished without invoking C, the outer one still holds C.
C4_Witness ==
  /\ Len(stack) = 3
  /\ stack[1].k = "notify"
  /\ stack[1].i = 0
  /\ LoopOver
  /\ \E id \in Range(stack[1].snap) :
       /\ id \notin Range(Top.snap)
       /\ subs[id].fn \notin Range(Top.inv)
       /\ subs[id].fn \in Range(stack[1].snapL)

\* C5: ordering guarantee.  When a dispatch call is about to return, every
\* listener that was registered when the call began has been invoked, and
\* the state it found at its last invocation is the state the store holds
\* now - also when listeners made nested dispatches during the call.
C5_OrderingGuarantee ==
  (LoopOver /\ Top.via = "user")
    => \A id \in Range(Top.snap) :
         /\ subs[id].fn \in Range(Top.inv)
         /\ seen[subs[id].fn] = currentState

\* C6: notification order.  Once the reducer phase is over the state has
\* been replaced, and the listeners a dispatch invokes are those registered
\* when it began, in the order in which they were subscribed, each once: at
\* every point of the loop the listeners invoked so far are a prefix of the
\* subscriptions in subscription order, and all of them when the loop is over.
C6_NotificationOrder ==
  \A j \in NotifyFrames :
    /\ Len(stack[j].inv) <= Len(stack[j].snap)
    /\ stack[j].inv = SubSeq(FnsOf(stack[j].snap), 1, Len(stack[j].inv))
    /\ (j = Len(stack) /\ LoopOver) => stack[j].inv = FnsOf(stack[j].snap)

\* C7: reducer failure.  When the reducer throws, the dispatch call ends with
\* that exception, which reaches the caller; the state is the one before the
\* call, the call has notified no listener and the dispatching flag is false.
\* The flag is true only while a reducer body runs, so the next call made on
\* the store after the failure - dispatch of a valid action, getState,
\* subscribe, unsubscribe - is not rejected as reentrant.
ReentrancyErrors ==
  {"ReentrantDispatch", "IllegalReentrantRead", "ReentrantSubscribe",
   "ReentrantUnsubscribe"}
C7_ReducerFailure ==
  /\ [](/\ isDispatching = (stack # <<>> /\ Top.k = "reducer")
        /\ (ret.status = "ReducerError" /\ ret.f.k = "reducer")
             => /\ ret.post = ret.f.preS
                /\ currentState = ret.f.preS
                /\ ret.f.inv = <<>>
                /\ ~ret.flag
                /\ ~isDispatching
                /\ \A v \in ValidActions : DispatchCheck(v) = "ok")
  /\ [][/\ (stack # <<>> /\ Top.k = "reducer" /\ ret'.status = "ReducerError")
             => /\ stack' = Pop(stack, 1)
                /\ exc' = (IF stack' = <<>> THEN "none" ELSE "ReducerError")
                /\ currentState' = currentState
                /\ seen' = seen
        /\ (ret.status = "ReducerError" /\ exc = "none" /\ calls' # calls)
             => ret'.status \notin ReentrancyErrors]_vars

\* C7 witness: a top-level dispatch on a store with listeners has ended with
\* the error its reducer threw, the state changed by an earlier dispatch is
\* still in place.
C7_Witness ==
  /\ stack = <<>>
  /\ ret.op = "dispatch"
  /\ ret.status = "ReducerError"
  /\ ret.f.k = "reducer"
  /\ ret.f.snap # <<>>
  /\ currentState # Reduce(ret.f.preR, ret.f.preS, ret.f.a)

\* C8 as stated: no partial failure.  A dispatch call that has ended, normally
\* or with an error, and that replaced the state has invoked every listener
\* of its snapshot.
C8_NoPartialFailure ==
  ret.f.k = "notify" => ret.f.inv = ret.f.snapL

\* C8 amended: a dispatch call that ends in its reducer phase has not changed
\* the state and has invoked no listener; one that returns normally has
\* replaced the state and invoked every listener of its snapshot; one that
\* ends with the exception that left one of its listeners has replaced the
\* state and invoked the listeners of its snapshot up to that one, in order,
\* and none after it.
C8_FailureOutcomes ==
  /\ ret.f.k = "reducer"
       => /\ ret.status # "ok"
          /\ ret.post = ret.f.preS
          /\ ret.f.inv = <<>>
  /\ (ret.f.k = "notify" /\ ret.status = "ok")
       => ret.f.inv = ret.f.snapL
  /\ (ret.f.k = "notify" /\ ret.status # "ok")
       => /\ ret.f.i < Len(ret.f.snapL)
          /\ ret.f.inv = SubSeq(ret.f.snapL, 1, ret.f.i + 1)

\* C8 witness: a dispatch has ended with the error of its first listener;
\* the state is replaced and a later listener of its snapshot was not invoked.
C8_Witness ==
  /\ ret.f.k = "notify"
  /\ ret.status = "ListenerError"
  /\ Len(ret.f.inv) < Len(ret.f.snapL)
  /\ ret.post # ret.f.preS
  /\ currentState = ret.post

\* C9: invalid action rejection.  dispatch of a value that is not a plain
\* object fails with InvalidActionShape and dispatch of a plain object whose
\* type is undefined fails with MissingActionType, whatever the store is
\* doing; the error reaches the caller, no reducer is invoked, the state is
\* unchanged and no listener is invoked.
Rejected(err) ==
  /\ ret'.op = "dispatch"
  /\ ret'.status = err
  /\ exc' = (IF stack = <<>> THEN "none" ELSE err)
  /\ Len(stack') = Len(stack)
  /\ \A j \in 1..Len(stack) : stack'[j].k = stack[j].k
  /\ currentState' = currentState
  /\ currentReducer' = currentReducer
  /\ isDispatching' = isDispatching
  /\ seen' = seen
C9_InvalidActionRejection ==
  [][\A v \in ActionVals :
       Dispatch(v)
         => /\ ~isPlainObject(v) => Rejected("InvalidActionShape")
            /\ (isPlainObject(v) /\ v.type = "undefined")
                 => Rejected("MissingActionType")]_vars

\* C9 witness: a listener's dispatch of a plain object without a type has
\* been rejected with MissingActionType.
C9_Witness ==
  /\ stack # <<>>
  /\ Top.k = "listener"
  /\ ret.op = "dispatch"
  /\ ret.status = "MissingActionType"
  /\ exc = "MissingActionType"

\* C10: replaceReducer continuity.  replaceReducer(R2) on a store with state
\* s invokes R2 with (s, REPLACE), once (a call has one reducer phase, which
\* never starts again), and the state is then R2(s, REPLACE); the reducer of
\* the store changes only when replaceReducer is called, to the argument of
\* that call, and every dispatch computes with the reducer the store holds
\* when it is called, so with R2 until replaceReducer is called again.
C10_ReplaceReducerContinuity ==
  /\ [](/\ \A j \in 1..Len(stack) :
             /\ stack[j].via = "replace"
                  => /\ stack[j].r = stack[j].arg
                     /\ stack[j].s = stack[j].preS
                     /\ stack[j].a = PlainAction(REPLACE)
             /\ stack[j].via = "user"
                  => /\ stack[j].r = stack[j].preR
                     /\ stack[j].s = stack[j].preS
        /\ (stack # <<>> /\ Top.k = "notify" /\ Top.via = "replace"
              /\ Top.i = 0)
             => currentState = Reduce(Top.arg, Top.preS, PlainAction(REPLACE))
        /\ (ret.op = "replaceReducer" /\ ret.status = "ok" /\ ~ret.f.nested)
             => ret.post = Reduce(ret.f.arg, ret.f.preS, PlainAction(REPLACE)))
  /\ [][/\ \A j \in 1..Len(stack) :
             (j <= Len(stack') /\ stack[j].k = "notify")
               => stack'[j].k = "notify"
        /\ (created /\ currentReducer' # currentReducer)
             => /\ ret'.op = "replaceReducer"
                /\ ret'.status \in {"running", "ReentrantDispatch"}
                /\ currentReducer' \in Reducers
                /\ (ret'.status = "running"
                      => currentReducer' = stack'[Len(stack')].arg)]_vars

\* C10 witness: after replaceReducer(R2) a dispatch has returned whose next
\* state was computed by R2 from the state R2 left.
C10_Witness ==
  /\ ret.op = "dispatch"
  /\ ret.status = "ok"
  /\ ret.f.r = "R2"
  /\ ~ret.f.nested
  /\ ret.post # ret.f.preS
  /\ ret.post = Reduce("R2", ret.f.preS, ret.f.a)
  /\ ret.post # Reduce("R1", ret.f.preS, ret.f.a)

\* the store object createStore handed to its caller
Held == StoreObj(IF enh.phase = "bound" THEN "enhanced" ELSE "base")
\* the wrappers an action dispatched on a store object goes through, the
\* outermost first, before it reaches the base dispatch
DispatchOf(store) == IF store.type = "enhanced" THEN Chain ELSE <<>>

\* C11: replaceReducer returns the store it was called on.  When a
\* replaceReducer call on the store the caller holds has returned, a dispatch
\* on the returned value goes through the same wrappers as a dispatch on the
\* store the caller holds.
C11_ReplaceReducerReturnsStore ==
  (created /\ ret.op = "replaceReducer" /\ ret.status = "ok")
    => DispatchOf(ret.val) = DispatchOf(Held)

\* the stage the configured order puts after the wrapper of frame fr
StageAfter(fr) == IF fr.i < Len(enh.mws) THEN enh.mws[fr.i + 1] ELSE "base"
\* frame fr is a wrapper run in its configured place whose calls of next
\* went to the stage configured after it
InOrder(fr) ==
  /\ fr.fn = enh.mws[fr.i]
  /\ Len(fr.inv) <= fr.ops
  /\ \A q \in 1..Len(fr.inv) : fr.inv[q] = StageAfter(fr)

\* C12: middleware ordering.  A dispatch on the composed store enters the
\* wrapper of m1; the wrapper of m(k+1) runs only as the callee of a next call
\* of the wrapper of mk, with the action that call passed, and the base
\* dispatch (and so the reducer) only as the callee of a next call of the
\* wrapper of mn; every call of next enters that one stage, so a wrapper that
\* calls next once runs the stage after it once.
C12_MiddlewareOrdering ==
  /\ \A j \in 1..Len(stack) :
       /\ stack[j].k = "mw"
            => /\ InOrder(stack[j])
               /\ stack[j].via = "next"
                    => /\ j > 1
                       /\ stack[j - 1].k = "mw"
                       /\ stack[j - 1].i = stack[j].i - 1
                       /\ stack[j - 1].a = stack[j].a
                       /\ stack[j - 1].inv # <<>>
               /\ stack[j].via # "next" => stack[j].i = 1
       /\ (stack[j].k \in {"reducer", "notify"} /\ stack[j].via = "user"
             /\ enh.mws # <<>>)
            => /\ j > 1
               /\ stack[j - 1].k = "mw"
               /\ stack[j - 1].i = Len(enh.mws)
               /\ stack[j - 1].a = stack[j].a
               /\ stack[j - 1].inv # <<>>
  /\ ret.f.k = "mw" => InOrder(ret.f)

\* C12 witness: with interceptors [M1, M2] an action dispatched on the
\* composed store has passed the wrapper of M1, then that of M2, each calling
\* next once, and the base dispatch has run the reducer on it.
C12_Witness ==
  /\ Len(stack) = 3
  /\ stack[1].k = "mw" /\ stack[1].fn = "M1" /\ stack[1].inv = <<"M2">>
  /\ stack[2].k = "mw" /\ stack[2].fn = "M2" /\ stack[2].inv = <<"base">>
  /\ stack[3].k = "notify"
  /\ stack[3].a = stack[1].a
  /\ currentState # stack[3].preS

\* C13: premature dispatch.  While applyMiddleware constructs the
\* interceptors - the bodies of middleware(api) and of chain[j](next), before
\* the composed dispatch is bound - no wrapper and no reducer runs, a call of
\* the context's dispatch fails with PrematureDispatch and starts nothing,
\* and the state keeps the value the INIT dispatch left.
C13_PrematureDispatch ==
  /\ [](/\ \A j \in 1..Len(stack) :
             stack[j].k = "setup"
               => Len(stack) = 1 /\ enh.phase = "setup" /\ ~created
        /\ enh.phase = "setup" => ~isDispatching)
  /\ [][/\ \A v \in MwActionVals :
             SetupDispatch(v)
               => /\ ret'.op = "dispatch"
                  /\ ret'.status = "PrematureDispatch"
                  /\ exc' = "PrematureDispatch"
                  /\ Len(stack') = 1
                  /\ stack'[1].k = "setup"
                  /\ ~isDispatching'
                  /\ seen' = seen
        /\ enh.phase = "setup"
             => currentState' = currentState /\ currentReducer' = currentReducer]_vars

\* C13 witness: a chain[j](next) body run by compose has called the context's
\* dispatch and the call has failed with PrematureDispatch.
C13_Witness ==
  /\ stack # <<>>
  /\ Top.k = "setup"
  /\ Top.via = "wrap"
  /\ ret.op = "dispatch"
  /\ ret.status = "PrematureDispatch"
  /\ exc = "PrematureDispatch"
  /\ currentState # Undef

\* C14: late-bound context dispatch.  Once the setup is done, a call of the
\* context's dispatch by the wrapper of any mi enters the composed dispatch:
\* the action goes to the wrapper of m1 (and from there down the chain in
\* configured order, C12), not to mi's next and not to the base dispatch.
C14_LateBoundDispatch ==
  /\ [](\A j \in 1..Len(stack) :
          (stack[j].k = "mw" /\ stack[j].via = "api")
            => /\ stack[j].i = 1
               /\ stack[j].fn = enh.mws[1]
               /\ j > 1
               /\ stack[j - 1].k = "mw"
               /\ enh.phase = "bound")
  /\ [][\A v \in {PlainAction("INC")} :
          MwDispatch(v)
            => /\ Len(stack') = Len(stack) + 1
               /\ stack'[Len(stack')].k = "mw"
               /\ stack'[Len(stack')].via = "api"
               /\ stack'[Len(stack')].a = v
               /\ currentState' = currentState
               /\ isDispatching' = isDispatching]_vars

\* C14 witness: the wrapper of the last interceptor M2 has called the
\* context's dispatch; the action has entered the wrapper of M1, then that of
\* M2, and has reached the base dispatch.
C14_Witness ==
  /\ Len(stack) = 5
  /\ stack[2].k = "mw" /\ stack[2].fn = "M2"
  /\ stack[3].k = "mw" /\ stack[3].fn = "M1" /\ stack[3].via = "api"
  /\ stack[4].k = "mw" /\ stack[4].fn = "M2" /\ stack[4].via = "next"
  /\ stack[5].k = "notify"

\* C15: the store of the middleware enhancer is the underlying store with
\* only dispatch replaced.  An action the chain passes to the innermost next
\* gets the base dispatch's validation - rejected with the error of the
\* failing check and nothing changed, or the current reducer called with the
\* current state and that action; the base dispatch reached through the chain
\* replaces the state getState reads with the reducer's result and notifies
\* the listeners that subscribe registered, with the reducer that
\* replaceReducer installed; getState returns the current state.
C15_OnlyDispatchReplaced ==
  /\ [](\A j \in 1..Len(stack) :
          (stack[j].k = "notify" /\ stack[j].via = "user")
            => /\ stack[j].snapL = arrays[stack[j].ls]
               /\ SameBag(stack[j].snapL, FnsOf(stack[j].snap))
               /\ (j = Len(stack) /\ stack[j].i = 0)
                    => currentState = Reduce(stack[j].preR, stack[j].preS,
                                             stack[j].a)
               /\ (j = Len(stack) /\ LoopOver)
                    => stack[j].inv = stack[j].snapL)
  /\ [][/\ (MwNext /\ Top.i = Len(Chain))
             => IF DispatchCheck(Top.a) # "ok"
                THEN /\ ret'.status = DispatchCheck(Top.a)
                     /\ exc' = DispatchCheck(Top.a)
                     /\ Len(stack') = Len(stack)
                     /\ currentState' = currentState
                     /\ isDispatching' = isDispatching
                ELSE /\ Len(stack') = Len(stack) + 1
                     /\ stack'[Len(stack')].k = "reducer"
                     /\ stack'[Len(stack')].r = currentReducer
                     /\ stack'[Len(stack')].s = currentState
                     /\ stack'[Len(stack')].a = Top.a
                     /\ stack'[Len(stack')].snap = reg
                     /\ isDispatching'
        /\ (calls' # calls /\ ret'.op = "getState" /\ ret'.status = "ok")
             => ret'.val = currentState /\ currentState' = currentState]_vars

\* C15 witness: on a store with middleware, a listener was subscribed and
\* the reducer replaced through the returned store; a dispatch through the
\* chain has then changed the state with the new reducer and notified the
\* listener.
C15_Witness ==
  /\ enh.phase = "bound"
  /\ Len(stack) >= 2
  /\ Top.k = "notify"
  /\ stack[Len(stack) - 1].k = "mw"
  /\ Top.r = "R2"
  /\ Top.snapL # <<>>
  /\ LoopOver
  /\ currentState # Top.preS

\* C16: enhancer delegation.  createStore called with an enhancer hands
\* (reducer, preloadedState) to it and does nothing else itself: the one
\* construction that starts is the enhancer's own call of the constructor -
\* which validates the reducer, takes the preloaded state as it was resolved
\* and dispatches INIT - and no INIT is dispatched after that one; what the
\* caller gets is the store the enhancer returns.
C16_EnhancerDelegation ==
  /\ [](\A j \in 1..Len(stack) :
          stack[j].via = "init"
            => /\ j = 1 /\ Len(stack) = 1
               /\ ~created
               /\ enh.phase \in {"none", "base"}
               /\ stack[j].a = PlainAction(INIT)
               /\ stack[j].s = stack[j].preS)
  /\ [][/\ \A c \in EnhCreateArgs :
             LET res == ResolveArgs(c.p, c.e, c.a4)
             IN  (CreateStoreCall(c.r, c.p, c.e, c.a4) /\ res.err = "none"
                    /\ res.enhancer.t = "function")
                   => IF c.r = NotFn
                      THEN /\ ret'.status = "InvalidArgument"
                           /\ stack' = <<>>
                           /\ enh' = NoEnh
                      ELSE /\ Len(stack') = 1
                           /\ stack'[1].k = "reducer"
                           /\ stack'[1].via = "init"
                           /\ stack'[1].r = c.r
                           /\ stack'[1].s = res.preloaded.v
                           /\ currentState' = res.preloaded.v
                           /\ currentReducer' = c.r
                           /\ enh'.phase = "base"
                           /\ enh'.mws = SubSeq(Middlewares, 1, res.enhancer.n)
        /\ (enh.phase = "setup" /\ enh'.phase = "bound")
             => /\ created'
                /\ ret'.op = "createStore"
                /\ ret'.val = StoreObj("enhanced")
                /\ currentState' = currentState]_vars

\* C16 witness: createStore(R1, preloaded, applyMiddleware(M1, M2)) has
\* returned the enhancer's store; the state is R1(preloaded, INIT).
C16_Witness ==
  /\ created
  /\ enh.phase = "bound"
  /\ Len(enh.mws) = 2
  /\ calls = 0
  /\ ret.val = StoreObj("enhanced")
  /\ currentState = Reduce("R1", NStates - 1, PlainAction(INIT))

\* a call of createStore that threw err before anything was invoked or built
CreateFailed(err) ==
  /\ ret'.op = "createStore"
  /\ ret'.status = err
  /\ stack' = <<>>
  /\ enh' = NoEnh
  /\ UNCHANGED <<created, currentReducer, currentState, currentListeners,
                 nextListeners, isDispatching, arrays, subs, exc, calls, reg,
                 seen>>

\* C17: construction argument resolution.  Two callables in the slots
\* (preloadedState, enhancer) or (enhancer, fourth argument) fail with
\* AmbiguousEnhancer; a callable in the preloadedState slot with the enhancer
\* slot undefined is the enhancer and the preloaded state is absent; a
\* defined enhancer that is not callable fails with InvalidArgument, and so
\* does a reducer that is not callable when there is no enhancer; a failing
\* call invokes no reducer and no enhancer and leaves nothing behind.
C17_ArgumentResolution ==
  [][\A c \in EnhCreateArgs :
       CreateStoreCall(c.r, c.p, c.e, c.a4)
         => LET ambiguous == \/ c.p.t = "function" /\ c.e.t = "function"
                             \/ c.e.t = "function" /\ c.a4.t = "function"
            IN  /\ ambiguous => CreateFailed("AmbiguousEnhancer")
                /\ (~ambiguous /\ c.p.t = "function" /\ c.e.t = "undefined"
                      /\ c.r # NotFn)
                     => /\ enh'.phase = "base"
                        /\ enh'.mws = SubSeq(Middlewares, 1, c.p.n)
                        /\ currentState' = Undef
                        /\ Len(stack') = 1
                        /\ stack'[1].s = Undef
                        /\ stack'[1].r = c.r
                /\ (~ambiguous /\ c.e.t \notin {"undefined", "function"})
                     => CreateFailed("InvalidArgument")
                /\ (c.p.t # "function" /\ c.e.t = "undefined"
                      /\ c.r = NotFn)
                     => CreateFailed("InvalidArgument")]_vars

\* C17 witness: a call with two enhancers has failed and no store exists
C17_Witness ==
  /\ ret.op = "createStore"
  /\ ret.status = "AmbiguousEnhancer"
  /\ ~created
  /\ stack = <<>>
  /\ enh = NoEnh

\* a reducer invocation of the store is executing
ReducerRunning == \E j \in 1..Len(stack) : stack[j].k = "reducer"

\* C18: reentrant read.  getState throws IllegalReentrantRead exactly when
\* a reducer invocation of the store is executing; at every other moment,
\* inside a listener too, it returns the current state and changes nothing.
C18_ReentrantRead ==
  /\ [](isDispatching <=> ReducerRunning)
  /\ [][GetState
          => /\ ret'.op = "getState"
             /\ IF ReducerRunning
                THEN /\ ret'.status = "IllegalReentrantRead"
                     /\ exc' = "IllegalReentrantRead"
                ELSE /\ ret'.status = "ok"
                     /\ ret'.val = currentState
                     /\ exc' = exc
             /\ Len(stack') = Len(stack)
             /\ UNCHANGED <<created, currentReducer, currentState,
                            currentListeners, nextListeners, isDispatching,
                            arrays, subs, reg, seen>>]_vars

\* C18 witness: a listener called getState during notification and got the
\* state its dispatch produced
C18_Witness ==
  /\ stack # <<>>
  /\ Top.k = "listener"
  /\ ret.op = "getState"
  /\ ret.status = "ok"
  /\ ret.depth = Len(stack)
  /\ ret.val = currentState
  /\ currentState # Undef

\* C19: subscribe throws InvalidArgument for a listener that is not callable
\* and ReentrantSubscribe while a reducer is executing; either way the
\* listener registry is what it was, and nothing that was not registered by
\* a subscribe call that returned is ever in a listener array or invoked.
C19_SubscribeRejection ==
  /\ [](/\ \A id \in DOMAIN arrays :
             \A i \in 1..Len(arrays[id]) :
                \E q \in 1..Len(subs) : subs[q].fn = arrays[id][i]
        /\ \A j \in 1..Len(stack) :
             stack[j].k = "listener"
               => \E q \in 1..Len(subs) : subs[q].fn = stack[j].fn
        /\ \A q \in 1..Len(subs) : subs[q].fn \in Fns)
  /\ [][\A fn \in Fns \cup {NotFn} :
          (Subscribe(fn) /\ (fn = NotFn \/ ReducerRunning))
            => /\ ret'.op = "subscribe"
               /\ ret'.status = IF fn = NotFn THEN "InvalidArgument"
                                ELSE "ReentrantSubscribe"
               /\ exc' = IF stack = <<>> THEN "none" ELSE ret'.status
               /\ UNCHANGED <<currentListeners, nextListeners, arrays, subs,
                              reg, currentState, currentReducer,
                              isDispatching>>]_vars

\* C19 witness: a reducer called subscribe with a function and it threw
C19_Witness ==
  /\ stack # <<>>
  /\ Top.k = "reducer"
  /\ ret.op = "subscribe"
  /\ ret.status = "ReentrantSubscribe"
  /\ ret.depth = Len(stack)
  /\ exc = "ReentrantSubscribe"

\* C20: unsubscribe idempotence.  Once the function returned by subscribe
\* has completed, a further call of it - at top level, in a listener or in a
\* reducer - returns without throwing and changes no listener array, no
\* registration and nothing else of the store.
C20_UnsubscribeIdempotence ==
  [][\A j \in 1..Len(subs) :
       (Unsubscribe(j) /\ ~subs[j].isSubscribed)
         => /\ ret'.op = "unsubscribe"
            /\ ret'.status = "ok"
            /\ exc' = exc
            /\ Len(stack') = Len(stack)
            /\ UNCHANGED <<currentListeners, nextListeners, arrays, subs,
                           reg, currentState, currentReducer,
                           isDispatching>>]_vars

\* C20 witness: a reducer called an unsubscribe function that had already
\* completed, while another listener was still registered, and it returned
C20_Witness ==
  /\ stack # <<>>
  /\ Top.k = "reducer"
  /\ isDispatching
  /\ ret.op = "unsubscribe"
  /\ ret.status = "ok"
  /\ ret.depth = Len(stack)
  /\ exc = "none"
  /\ \E j \in 1..Len(subs) : ~subs[j].isSubscribed
  /\ \E q \in 1..Len(subs) : subs[q].isSubscribed

C22_ListenerDispatch ==
  /\ [](\A j \in NotifyFrames :
          (j >= 2 /\ stack[j - 1].k = "listener" /\ stack[j].i = 0
             /\ j = Len(stack) /\ stack[j].via = "user")
            => currentState = Reduce(stack[j].preR, stack[j].preS, stack[j].a))
  /\ [][/\ \A v \in ValidActions :
             (Dispatch(v) /\ stack # <<>> /\ Top.k = "listener")
               => /\ ret'.status = "running"
                  /\ exc' = "none"
                  /\ Len(stack') = Len(stack) + 1
                  /\ stack'[Len(stack')].k = "reducer"
                  /\ stack'[Len(stack')].a = v
                  /\ stack'[Len(stack')].s = currentState
                  /\ stack'[Len(stack')].r = currentReducer
        /\ (DispatchReturn /\ Len(stack) >= 2 /\ Below.k = "listener"
              /\ Top.via = "user")
             => /\ Top.inv = arrays[Top.ls]
                /\ ret'.op = "dispatch"
                /\ ret'.status = "ok"
                /\ exc' = "none"
                /\ stack' = Pop(stack, 1)]_vars

\* C22 witness: a dispatch made by a listener has returned to it, having
\* changed the state and invoked listeners
C22_Witness ==
  /\ stack # <<>>
  /\ Top.k = "listener"
  /\ ret.op = "dispatch"
  /\ ret.status = "ok"
  /\ ret.depth = Len(stack)
  /\ ret.post # ret.f.preS
  /\ ret.f.inv # <<>>
  /\ exc = "none"

\* the call that returned last to the running wrapper was its next(action)
NextReturned ==
  /\ CallReturned
  /\ ret.f.k = "mw" => ret.f.via = "next"

\* C23: return-value echo.  A base dispatch that returns, returns the action
\* it was called with, whatever its listeners dispatched meanwhile; a
\* wrapper that returns the result of next(action) returns its own action
\* when the stage it called did, so a composed dispatch whose wrappers all
\* return next(action) returns the action it was given.
C23_ReturnValueEcho ==
  /\ []((ret.op = "dispatch" /\ ret.status = "ok" /\ ret.f.k = "notify")
          => ret.val = ret.f.a)
  /\ [][/\ (DispatchReturn /\ Top.via = "user")
             => /\ ret'.status = "ok"
                /\ ret'.val = Top.a
                /\ ret'.depth = Len(stack) - 1
        /\ (MwReturn /\ NextReturned /\ ret.val = ret.f.a)
             => /\ ret.f.a = Top.a
                /\ ret'.status = "ok"
                /\ ret'.val = Top.a
                /\ ret'.depth = Len(stack) - 1]_vars

\* C23 witness: on a store with one middleware a listener of dispatch(a)
\* has dispatched another action b; that call went through the wrapper and
\* the base dispatch and returned b to the listener
C23_Witness ==
  /\ Len(stack) >= 3
  /\ Top.k = "listener"
  /\ Below.k = "notify"
  /\ ret.op = "dispatch"
  /\ ret.status = "ok"
  /\ ret.depth = Len(stack)
  /\ ret.f.k = "mw"
  /\ ret.f.inv = <<"base">>
  /\ ret.val = ret.f.a
  /\ ret.val # Below.a

\* the frames of observeState run by a notification loop
PushFrames ==
  {j \in 1..Len(stack) :
     stack[j].k = "listener" /\ stack[j].fn = "O1" /\ stack[j].via # "observe"}

\* an adapter of an observer with next is subscribed
Observing == \E q \in 1..Len(subs) : subs[q].fn = "O1" /\ subs[q].isSubscribed

\* the parts of C24 about notification, observers without next and invalid
\* observers: a loop that runs observeState hands next the state of that
\* moment, a loop that ends has run it once for each entry of its array, an
\* observer without next is subscribed and its observeState calls nothing
\* and throws nothing, and an observer that is not an object is rejected
\* with nothing registered
ObserverPushes ==
  /\ [](/\ \A j \in 1..Len(stack) :
             stack[j].fn = "O0"
               => /\ stack[j].ops = 0
                  /\ stack[j].via = "none"
                  /\ j = Len(stack) /\ exc = "none"
        /\ \A j \in NotifyFrames :
             (j = Len(stack) /\ LoopOver)
               => Count(stack[j].inv, "O1") = Count(stack[j].snapL, "O1"))
  /\ [][/\ (NotifyStep /\ arrays[Top.ls][Top.i + 1] = "O1")
             => /\ seen'["O1"] = currentState
                /\ Count(stack'[Len(stack)].inv, "O1") =
                     Count(Top.inv, "O1") + 1
        /\ \A o \in ObserverVals :
             ObservableSubscribe(o)
               => /\ o.t # "object"
                       => /\ ret'.status = "InvalidArgument"
                          /\ UNCHANGED <<currentListeners, nextListeners,
                                         arrays, subs, reg, seen>>
                  /\ (o.t = "object" /\ ~o.next /\ ~ReducerRunning)
                       => /\ ret'.status = "ok"
                          /\ exc' = exc
                          /\ Len(subs') = Len(subs) + 1
                          /\ subs'[Len(subs')].fn = "O0"
                          /\ seen' = seen]_vars

C25_DispatchingFlag ==
  /\ isDispatching <=> ReducerRunning
  /\ ReducerRunning => Top.k = "reducer"
  /\ stack = <<>> => ~isDispatching
  /\ (stack # <<>> /\ Top.k \in {"listener", "notify"}) => ~isDispatching
  /\ (ret.f.k \in {"reducer", "notify"} /\ ret.status # "running")
       => ~ret.flag

\* C25 witness: a listener of a dispatch has dispatched, and the reducer of
\* the nested dispatch is executing with the flag set again
C25_Witness ==
  /\ Len(stack) = 3
  /\ stack[1].k = "notify"
  /\ stack[2].k = "listener"
  /\ stack[3].k = "reducer"
  /\ isDispatching
  /\ exc = "none"

\* subscribe or an unsubscribe function is called while a dispatch is active
RegistryCallInDispatch ==
  /\ stack # <<>>
  /\ \/ \E fn \in Fns \cup {NotFn} : Subscribe(fn)
     \/ \E j \in 1..Len(subs) : Unsubscribe(j)

\* C26 as stated: subscribe and unsubscribe called during an active dispatch
\* leave currentListeners as it is and only alter nextListeners.
C26_CurrentUnchanged ==
  [][RegistryCallInDispatch => currentListeners' = currentListeners]_vars

\* C26, amended: subscribe and unsubscribe called during an active dispatch
\* never modify an array that a listener loop is iterating; they edit
\* nextListeners, copied first when it is the current array.  subscribe
\* leaves currentListeners as it is, a successful unsubscribe sets it to
\* null.
C26_RegistryInvariant ==
  /\ [](\A j \in NotifyFrames :
          /\ arrays[stack[j].ls] = stack[j].snapL
          /\ stack[j].i <= Len(stack[j].snapL))
  /\ [][RegistryCallInDispatch
          => /\ \A j \in NotifyFrames :
                  /\ stack'[j].ls = stack[j].ls
                  /\ arrays'[stack[j].ls] = arrays[stack[j].ls]
             /\ \A id \in ArrIds \ {nextListeners'} :
                  arrays'[id] \in {arrays[id], <<>>}
             /\ currentListeners' \in {currentListeners, Null}
             /\ (\E fn \in Fns \cup {NotFn} : Subscribe(fn))
                  => /\ currentListeners' = currentListeners
                     /\ currentListeners # Null
                          => arrays'[currentListeners] =
                               arrays[currentListeners]
             /\ currentListeners' # currentListeners
                  => /\ ret'.op = "unsubscribe"
                     /\ ret'.status = "ok"
                     /\ nextListeners' \notin
                          {stack[j].ls : j \in NotifyFrames}]_vars

\* C26 witness: a listener has unsubscribed during notification; the array
\* its loop iterates is intact, nextListeners is a shorter copy and
\* currentListeners is null
C26_Witness ==
  /\ Len(stack) >= 2
  /\ Top.k = "listener"
  /\ Below.k = "notify"
  /\ ret.op = "unsubscribe"
  /\ ret.status = "ok"
  /\ ret.depth = Len(stack)
  /\ currentListeners = Null
  /\ arrays[Below.ls] = Below.snapL
  /\ nextListeners # Below.ls
  /\ Len(arrays[nextListeners]) < Len(Below.snapL)

\* the top frame is a dispatch made by a listener of the loop two frames down
Nested ==
  /\ Len(stack) >= 3
  /\ Below.k = "listener"
  /\ stack[Len(stack) - 2].k = "notify"

\* C27: nested dispatch snapshot.  A dispatch made by a listener iterates
\* nextListeners as it is when its reducer returns, which holds exactly the
\* subscriptions in force then, whatever the enclosing loop iterates; when
\* it returns, the enclosing loop is where it was, over the same array, and
\* goes on with the next element of that array.
C27_NestedSnapshot ==
  /\ [](\A j \in NotifyFrames :
          /\ arrays[stack[j].ls] = stack[j].snapL
          /\ stack[j].inv =
               SubSeq(stack[j].snapL, 1, Len(stack[j].inv)))
  /\ [][/\ (ReducerReturn /\ Nested)
             => /\ stack'[Len(stack)].ls = nextListeners
                /\ stack'[Len(stack)].snapL = arrays[nextListeners]
                /\ SameBag(stack'[Len(stack)].snapL, FnsOf(reg))
                /\ Len(stack'[Len(stack)].snapL) = Len(reg)
                /\ stack'[Len(stack) - 2].snapL = stack[Len(stack) - 2].snapL
                /\ stack'[Len(stack) - 2].i = stack[Len(stack) - 2].i
        /\ ((DispatchReturn \/ Propagate \/ Throw) /\ Nested)
             => \A j \in NotifyFrames :
                  j < Len(stack')
                    => /\ stack'[j].ls = stack[j].ls
                       /\ stack'[j].snapL = stack[j].snapL
                       /\ stack'[j].i = stack[j].i
                       /\ stack'[j].inv = stack[j].inv
                       /\ arrays'[stack[j].ls] = arrays[stack[j].ls]
        /\ NotifyStep
             => /\ stack'[Len(stack')].fn = Top.snapL[Top.i + 1]
                /\ Len(Top.inv) = Top.i]_vars

\* C27 witness: the first listener of an outer dispatch changed the
\* registry and dispatched; the nested dispatch ran over the changed
\* registry and returned, and the outer loop now runs the second listener
\* of its own array
C27_Witness ==
  /\ Len(stack) = 2
  /\ Below.k = "notify"
  /\ Below.nested
  /\ Below.i = 1
  /\ Top.k = "listener"
  /\ Top.fn = Below.snapL[2]
  /\ ret.op = "dispatch"
  /\ ret.status = "ok"
  /\ ret.f.k = "notify"
  /\ ret.f.snapL # Below.snapL
  /\ ret.f.inv = ret.f.snapL

\* a call that reads or edits the registry only, or that its argument check
\* rejects
NonMutatingCall ==
  \/ GetState
  \/ \E fn \in Fns \cup {NotFn} : Subscribe(fn)
  \/ \E j \in 1..Len(subs) : Unsubscribe(j)
  \/ \E o \in ObserverVals : ObservableSubscribe(o)
  \/ ObserveReturn
  \/ ReplaceReducer(NotFn)
  \/ \E v \in ActionVals \ ValidActions : Dispatch(v)

\* C28: frame.  Once createStore has set the cells up, currentState is
\* assigned only when the reducer of a dispatch returns (the INIT dispatch
\* of createStore and the REPLACE dispatch of replaceReducer included) and
\* currentReducer only by replaceReducer called with a function; getState,
\* subscribe, unsubscribe, observable().subscribe and the calls rejected for
\* their argument leave both as they are.
C28_Frame ==
  [][/\ currentState' # currentState
          => \/ ReducerReturn
             \/ ~created /\ stack = <<>> /\ ret'.op = "createStore"
     /\ currentReducer' # currentReducer
          => \/ \E r \in Reducers : ReplaceReducer(r)
             \/ ~created /\ stack = <<>> /\ ret'.op = "createStore"
     /\ NonMutatingCall
          => /\ currentState' = currentState
             /\ currentReducer' = currentReducer
             /\ isDispatching' = isDispatching]_vars

\* C28 witness: replaceReducer was rejected for its argument on a store
\* whose state a dispatch had changed, and reducer and state are in place
C28_Witness ==
  /\ created
  /\ ret.op = "replaceReducer"
  /\ ret.status = "InvalidArgument"
  /\ currentReducer = "R1"
  /\ currentState # Undef
  /\ Observing

\* an exception leaves the body of a listener that a loop is running
ListenerFails ==
  /\ Len(stack) >= 2
  /\ Top.k = "listener"
  /\ Below.k = "notify"
  /\ Propagate \/ Throw

\* C29: listener failure.  What a listener throws ends the dispatch call
\* whose loop ran it and reaches that call's caller; the listeners after it
\* in the array are not invoked by that call, the state stays what the
\* reducer returned, and isDispatching is false, so a dispatch of a valid
\* action passes the checks afterwards.
C29_ListenerFailure ==
  /\ []((ret.f.k = "notify" /\ ret.status \notin {"ok", "running"})
          => /\ ret.f.inv = SubSeq(ret.f.snapL, 1, ret.f.i + 1)
             /\ ~ret.flag
             /\ (ret.f.via = "user" /\ ~ret.f.nested)
                  => ret.post = Reduce(ret.f.preR, ret.f.preS, ret.f.a))
  /\ [][ListenerFails
          => /\ stack' = Pop(stack, 2)
             /\ ret'.f = Below
             /\ ret'.op = OpOf(Below.via)
             /\ ret'.status \notin {"ok", "running"}
             /\ ret'.depth = Len(stack) - 2
             /\ exc' = IF Len(stack) = 2 THEN "none" ELSE ret'.status
             /\ currentState' = currentState
             /\ ret'.post = currentState
             /\ ~isDispatching'
             /\ \A v \in ValidActions : DispatchCheck(v)' = "ok"]_vars

\* C29 witness: the first of two listeners threw; dispatch has failed at top
\* level with the second listener not invoked and the new state in place
C29_Witness ==
  /\ stack = <<>>
  /\ ret.op = "dispatch"
  /\ ret.status = "ListenerError"
  /\ ret.f.k = "notify"
  /\ Len(ret.f.snapL) = 2
  /\ Len(ret.f.inv) = 1
  /\ currentState = Reduce(ret.f.preR, ret.f.preS, ret.f.a)
  /\ currentState # ret.f.preS
  /\ ~isDispatching

\* C30: replaceReducer assigns currentReducer before it dispatches REPLACE
\* and nothing takes the assignment back.  Called while a reducer is
\* executing, it throws with the new reducer installed, the state as it was
\* and no listener run; when the new reducer throws on REPLACE, the call
\* throws with the state as it was and no listener run; a dispatch that
\* passes its checks calls the reducer installed last.
C30_ReplaceReducerFailure ==
  /\ []((ret.op = "replaceReducer" /\ ret.f.k = "reducer")
          => /\ ret.status \notin {"ok", "running"}
             /\ ret.f.inv = <<>>
             /\ ret.post = ret.f.preS)
  /\ [][/\ \A r \in Reducers :
             ReplaceReducer(r)
               => /\ currentReducer' = r
                  /\ currentState' = currentState
                  /\ IF ReducerRunning
                     THEN /\ ret'.op = "replaceReducer"
                          /\ ret'.status = "ReentrantDispatch"
                          /\ exc' = "ReentrantDispatch"
                          /\ Len(stack') = Len(stack)
                          /\ UNCHANGED <<currentListeners, nextListeners,
                                         arrays, isDispatching>>
                     ELSE /\ Len(stack') = Len(stack) + 1
                          /\ stack'[Len(stack')].k = "reducer"
                          /\ stack'[Len(stack')].r = r
                          /\ stack'[Len(stack')].a = PlainAction(REPLACE)
                          /\ stack'[Len(stack')].s = currentState
        /\ ((Throw \/ Propagate) /\ Top.k = "reducer" /\ Top.via = "replace")
             => /\ stack' = Pop(stack, 1)
                /\ ret'.op = "replaceReducer"
                /\ ret'.status \notin {"ok", "running"}
                /\ exc' = IF Len(stack) = 1 THEN "none" ELSE ret'.status
                /\ currentState' = currentState
                /\ currentState = Top.preS
                /\ currentReducer' = currentReducer
                /\ currentReducer \in Reducers
                /\ ~isDispatching'
        /\ \A v \in ValidActions :
             (Dispatch(v) /\ ~isDispatching)
               => /\ stack'[Len(stack')].r = currentReducer
                  /\ stack'[Len(stack')].s = currentState]_vars

\* C30 witness: the new reducer threw on REPLACE at top level; it is the
\* current reducer, the state is what it was, and the registered listener
\* was not run
C30_Witness ==
  /\ stack = <<>>
  /\ ret.op = "replaceReducer"
  /\ ret.status = "ReducerError"
  /\ ret.f.k = "reducer"
  /\ ret.f.inv = <<>>
  /\ currentReducer = ret.f.arg
  /\ currentReducer # ret.f.preR
  /\ currentState = ret.f.preS
  /\ reg # <<>>
  /\ ~isDispatching

\* C31: dispatch check precedence.  dispatch looks at the shape of the
\* action, then at its type, then at isDispatching: called by a reducer with
\* an action that is not a plain object it throws InvalidActionShape, with a
\* plain object without type MissingActionType, and ReentrantDispatch only
\* with a well-formed action; each of the three leaves the store as it is.
C31_CheckPrecedence ==
  /\ [](ret.op = "dispatch" /\ ret.status = "ReentrantDispatch"
          /\ ret.f.k = "none" /\ ret.depth = Len(stack) /\ exc # "none"
          => /\ ReducerRunning
             /\ Top.k = "reducer")
  /\ [][\A v \in ActionVals :
          (Dispatch(v) /\ ReducerRunning)
            => /\ ret'.op = "dispatch"
               /\ ret'.status =
                    IF ~isPlainObject(v) THEN "InvalidActionShape"
                    ELSE IF v.type = "undefined" THEN "MissingActionType"
                    ELSE "ReentrantDispatch"
               /\ ret'.status = "ReentrantDispatch" <=> v \in ValidActions
               /\ exc' = ret'.status
               /\ Len(stack') = Len(stack)
               /\ UNCHANGED <<currentState, currentReducer, isDispatching,
                              currentListeners, nextListeners, arrays>>]_vars

\* C31 witness: a reducer dispatched a value that is not a plain object and
\* got InvalidActionShape while isDispatching was set
C31_Witness ==
  /\ stack # <<>>
  /\ Top.k = "reducer"
  /\ isDispatching
  /\ ret.op = "dispatch"
  /\ ret.status = "InvalidActionShape"
  /\ ret.depth = Len(stack)
  /\ exc = "InvalidActionShape"

\* the frames of wrappers on the stack
MwFrames == {j \in 1..Len(stack) : stack[j].k = "mw"}

\* C32: on a store built by applyMiddleware the INIT action of createStore
\* and the REPLACE action of replaceReducer are dispatched by the base
\* dispatch itself.  No wrapper is ever called with them: the INIT dispatch
\* runs before any wrapper exists, a REPLACE dispatch is entered from the
\* body that called replaceReducer, and an action dispatched on the store
\* is entered from the innermost wrapper; the reducer is called with the
\* action and the state, and the loop of REPLACE runs every listener of its
\* array.
C32_SyntheticActionsBypass ==
  /\ [](\A j \in 1..Len(stack) :
          /\ stack[j].k = "mw" => stack[j].a.type \notin {INIT, REPLACE}
          /\ stack[j].via = "init"
               => /\ j = 1 /\ Len(stack) = 1
                  /\ stack[j].a = PlainAction(INIT)
                  /\ enh.made = 0 /\ enh.wrapped = 0
          /\ stack[j].via = "replace"
               => /\ stack[j].a = PlainAction(REPLACE)
                  /\ stack[j].r = stack[j].arg
                  /\ j = 1 \/ stack[j - 1].k = "listener"
                  /\ (stack[j].k = "notify" /\ j = Len(stack) /\ stack[j].i = 0)
                       => currentState =
                            Reduce(stack[j].arg, stack[j].preS, stack[j].a)
                  /\ (stack[j].k = "notify" /\ j = Len(stack) /\ LoopOver)
                       => stack[j].inv = stack[j].snapL
          /\ (stack[j].k \in {"reducer", "notify"} /\ stack[j].via = "user"
                /\ Chain # <<>>)
               => j > 1 /\ stack[j - 1].k = "mw"
                        /\ stack[j - 1].i = Len(Chain))
  /\ [][\A r \in Reducers :
          (ReplaceReducer(r) /\ enh.phase = "bound" /\ ~isDispatching)
            => /\ Len(stack') = Len(stack) + 1
               /\ stack'[Len(stack')].k = "reducer"
               /\ stack'[Len(stack')].via = "replace"
               /\ stack'[Len(stack')].a = PlainAction(REPLACE)
               /\ stack'[Len(stack')].r = r
               /\ stack'[Len(stack')].s = currentState
               /\ \A j \in MwFrames : stack'[j] = stack[j]]_vars

\* C32 witness: replaceReducer on a store with two middlewares has run the
\* new reducer on REPLACE and notified the listener, with no wrapper on the
\* stack
C32_Witness ==
  /\ enh.phase = "bound"
  /\ Len(enh.mws) = 2
  /\ Len(stack) = 1
  /\ Top.via = "replace"
  /\ Top.k = "notify"
  /\ LoopOver
  /\ Top.inv # <<>>
  /\ currentState = Reduce(Top.arg, Top.preS, PlainAction(REPLACE))

\* C33: duplicate subscriptions are independent registrations.  The
\* listener array holds one entry per registration in force, so a function
\* subscribed k times is invoked k times by each dispatch; an unsubscribe
\* function called once removes one entry of its function, and the entries
\* left are the other registrations in the order in which they were made.
C33_DuplicateSubscriptions ==
  /\ [](created => SameBag(arrays[nextListeners], FnsOf(reg)))
  /\ [](\A j \in NotifyFrames :
          (j = Len(stack) /\ LoopOver)
            => SameBag(stack[j].inv, FnsOf(stack[j].snap)))
  /\ [][\A j \in 1..Len(subs) :
          (Unsubscribe(j) /\ subs[j].isSubscribed /\ ~isDispatching)
            => /\ Count(arrays'[nextListeners'], subs[j].fn)
                    = Count(arrays[nextListeners], subs[j].fn) - 1
               /\ Len(arrays'[nextListeners']) = Len(arrays[nextListeners]) - 1
               /\ arrays[nextListeners] = FnsOf(reg)
                    => arrays'[nextListeners'] = FnsOf(reg')]_vars

====
